---- MODULE Spec2Model ----
(***************************************************************************)
(* Model of the response cache (app/services/cache/fabric_cache.py) and of *)
(* the three get-or-fetch services built on it                             *)
(* (app/services/agents/fabric_property_summary.py, fabric_zip_stats.py,   *)
(* fabric_risk_assessment.py).                                             *)
(*                                                                         *)
(* Spec       the cache API: get_cached_response, set_cached_response,     *)
(*            invalidate_cache, called with arbitrary keyword parameters.  *)
(* SpecFetch  the get-or-fetch and refresh operations over the same cache. *)
(* SpecAgg    the aggregation of an agent table into a report.             *)
(* SpecRace   two concurrent get_zip_stats or refresh_zip_stats calls for  *)
(*            one key, step by step, over a cache file they do not         *)
(*            coordinate on.                                               *)
(* SpecKey    the cache keys of two requests, one written, one read.       *)
(* SpecTable  the table normalizer and the payload upgrader of             *)
(*            fabric_risk_assessment.py, applied to agent payloads and     *)
(*            stored payloads of every shape.                              *)
(*                                                                         *)
(* In Spec, SpecFetch, SpecAgg and SpecTable each operation is one atomic  *)
(* action (the handlers are synchronous and these specifications describe  *)
(* one request at a time).  Time is counted in hours, the unit of          *)
(* ttl_hours.                                                              *)
(***************************************************************************)
EXTENDS Integers, Sequences, FiniteSets, TLC

VARIABLES
    files,  \* the cache directory: cache key -> content of that file
    now,    \* datetime.utcnow(), in hours
    ret,    \* the last operation: its arguments, what it found, what it returned
    last,   \* history: the last set_cached_response, while no other write,
            \* invalidation or damage to the directory has happened since
    scope,  \* the requests this run issues: "cache" (the cache API) or the
            \* report type "A", "B" or "C" of its get-or-fetch requests
    gone,   \* history: the keys invalidated and not written since, each with
            \* whether its file existed when it was invalidated
    procs,  \* SpecRace: the concurrent requests, each with its position in
            \* get_zip_stats and its local variables
    disk    \* SpecRace: the file of the key the concurrent requests share,
            \* as the chunks written to it since it was last truncated

vars == <<files, now, ret, last, gone, scope, procs, disk>>

----------------------------------------------------------------------------
(* Bounds of the model *)

MaxTime == 2        \* the clock of Spec runs over 0..MaxTime
MaxTtl == 1         \* Spec writes with ttl_hours in 0..MaxTtl
MaxLate == 1        \* the clock of SpecFetch jumps to CACHE_TTL_HOURS + 0..MaxLate
FetchMaxRows == 1   \* rows of an agent response in SpecFetch
MaxAggRows == 2     \* rows of an agent response in SpecAgg

(* Program constants *)

DEFAULT_TTL_HOURS == 72
CACHE_TTL_HOURS == 72

----------------------------------------------------------------------------
(* Keyword parameters.  A call's **kwargs is a sequence of <<name, value>>  *)
(* pairs with distinct names, in the order the caller wrote them.          *)

\* The keyword names the callers use, in str order (the order sorted() uses).
ParamNames == <<"county", "min_loss", "state", "years", "zip_code">>

Rank(name) == CHOOSE i \in 1..Len(ParamNames) : ParamNames[i] = name

\* Python truthiness of a str value.
Truthy(v) == v # ""

RECURSIVE InsertSorted(_, _)
InsertSorted(p, s) ==
    IF s = <<>> THEN <<p>>
    ELSE IF Rank(p[1]) <= Rank(Head(s)[1]) THEN <<p>> \o s
    ELSE <<Head(s)>> \o InsertSorted(p, Tail(s))

\* sorted(kwargs.items())
RECURSIVE SortedItems(_)
SortedItems(kw) ==
    IF kw = <<>> THEN <<>> ELSE InsertSorted(Head(kw), SortedItems(Tail(kw)))

\* "_".join(parts)
RECURSIVE Join(_)
Join(parts) ==
    IF Len(parts) = 1 THEN parts[1]
    ELSE parts[1] \o "_" \o Join(Tail(parts))

\* for k, v in items: if v: parts.append(str(v))
RECURSIVE TruthyValues(_)
TruthyValues(items) ==
    IF items = <<>> THEN <<>>
    ELSE (IF Truthy(Head(items)[2]) THEN <<Head(items)[2]>> ELSE <<>>)
             \o TruthyValues(Tail(items))

\* A plausible slip: every value is appended, the empty ones too.
RECURSIVE AllValues(_)
AllValues(items) ==
    IF items = <<>> THEN <<>> ELSE <<Head(items)[2]>> \o AllValues(Tail(items))

GetCacheKeyAllValues(function_id, case_id, kw) ==
    Join(<<"fabric_" \o function_id, case_id>> \o AllValues(SortedItems(kw))) \o ".json"

\* A plausible slip: the items are taken in call order, not sorted.
GetCacheKeyUnsorted(function_id, case_id, kw) ==
    Join(<<"fabric_" \o function_id, case_id>> \o TruthyValues(kw)) \o ".json"

_get_cache_key(function_id, case_id, kw) ==
    Join(<<"fabric_" \o function_id, case_id>> \o TruthyValues(SortedItems(kw)))
        \o ".json"

----------------------------------------------------------------------------
(* File contents and JSON documents *)

\* datetime.isoformat() and datetime.fromisoformat(): a timestamp string is
\* a tagged value; a string that is no ISO timestamp has tag "bad" and a
\* missing "cache_expires_at" has tag "absent".
isoformat(t) == [tag |-> "iso", t |-> t]
BadStamp == [tag |-> "bad", t |-> 0]
NoStamp == [tag |-> "absent", t |-> 0]

\* The default of cached.get("cache_expires_at", "2000-01-01"): a time before
\* every clock value of the model.
Y2000 == 0 - 1

NoFile == [kind |-> "absent"]
NoDisk == [exists |-> FALSE, cells |-> <<>>]     \* no file at the path
Garbage == [kind |-> "garbage"]          \* text that is not valid JSON
JsonFile(doc) == [kind |-> "json", doc |-> doc]

None == [shape |-> "none"]
ListDoc == [shape |-> "list"]            \* valid JSON, but not an object

\* cache_payload of set_cached_response
CachePayload(function_id, case_id, response_data, at, ttl_hours, kw) ==
    [shape |-> "dict",
     function_id |-> function_id,
     case_id |-> case_id,
     response_data |-> response_data,
     cached_at |-> isoformat(at),
     cache_expires_at |-> isoformat(at + ttl_hours),
     cache_params |-> kw]

----------------------------------------------------------------------------
(* get_cached_response *)

\* datetime.utcnow() > expires_at
Expired(t, expires_at) == t > expires_at

\* The try block: open and json.load the file, parse the expiry, compare it
\* with the clock, unlink an expired file.  io is what open() does.
\* exc: the block raised; result: what it returned; file: the file afterwards.
ReadCached(file, t, io) ==
    IF io = "open_error" \/ file.kind = "garbage" \/ file.doc.shape # "dict"
    THEN [exc |-> TRUE, result |-> None, file |-> file]
    ELSE IF file.doc.cache_expires_at.tag = "bad"
    THEN [exc |-> TRUE, result |-> None, file |-> file]
    ELSE LET stamp == file.doc.cache_expires_at
             expires_at == IF stamp.tag = "absent" THEN Y2000 ELSE stamp.t
         IN  IF Expired(t, expires_at)
             THEN [exc |-> FALSE, result |-> None, file |-> NoFile]
             ELSE [exc |-> FALSE, result |-> file.doc, file |-> file]

\* `if cached:` a record was returned (a non-empty mapping).
IsHit(result) == result.shape = "dict"

\* A plausible slip: the expired file is reported as a miss but not unlinked.
GetCachedKeepExpired(file, t, io) ==
    IF file = NoFile THEN [raised |-> FALSE, result |-> None, file |-> file]
    ELSE [raised |-> FALSE,
          result |-> LET r == ReadCached(file, t, io)
                     IN  IF r.exc THEN None ELSE r.result,
          file |-> file]

\* A plausible slip: no except clause, an error of the try block reaches the caller.
GetCachedNoExcept(file, t, io) ==
    IF file = NoFile THEN [raised |-> FALSE, result |-> None, file |-> file]
    ELSE LET r == ReadCached(file, t, io)
         IN  [raised |-> r.exc, result |-> r.result, file |-> r.file]

\* get_cached_response on the file of its key.
\* raised: an exception reached the caller; result: the record or None.
get_cached_response(file, t, io) ==
    IF file = NoFile THEN [raised |-> FALSE, result |-> None, file |-> file]
    ELSE LET r == ReadCached(file, t, io)
         IN  IF r.exc
             THEN [raised |-> FALSE, result |-> None, file |-> r.file]
             ELSE [raised |-> FALSE, result |-> r.result, file |-> r.file]

----------------------------------------------------------------------------
(* set_cached_response *)

\* json.dump accepts the payload: it holds no object json cannot encode.
Serializable(response_data) == "object" \notin DOMAIN response_data

\* The try block: open(cache_file, "w") then json.dump.  wr is what the
\* storage does: "ok", "open_error" (the file cannot be opened for writing,
\* nothing is touched) or "write_error" (the write fails after open() has
\* truncated the file).  A payload json.dump rejects fails the same way.
WriteCached(file, doc, wr) ==
    IF wr = "open_error" THEN [exc |-> TRUE, file |-> file]
    ELSE IF wr = "write_error" \/ ~Serializable(doc.response_data)
    THEN [exc |-> TRUE, file |-> Garbage]
    ELSE [exc |-> FALSE, file |-> JsonFile(doc)]

\* A plausible slip: an existing record is kept (exclusive create).
SetCachedKeepExisting(file, function_id, case_id, response_data, ttl_hours, kw, t, wr) ==
    IF file # NoFile THEN [raised |-> FALSE, file |-> file]
    ELSE [raised |-> FALSE,
          file |-> WriteCached(file,
                       CachePayload(function_id, case_id, response_data, t, ttl_hours, kw),
                       wr).file]

\* A plausible slip: no except clause around the write.
SetCachedNoExcept(file, function_id, case_id, response_data, ttl_hours, kw, t, wr) ==
    LET w == WriteCached(file,
                 CachePayload(function_id, case_id, response_data, t, ttl_hours, kw), wr)
    IN  [raised |-> w.exc, file |-> w.file]

set_cached_response(file, function_id, case_id, response_data, ttl_hours, kw, t, wr) ==
    LET w == WriteCached(file,
                 CachePayload(function_id, case_id, response_data, t, ttl_hours, kw), wr)
    IN  [raised |-> FALSE, file |-> w.file]

----------------------------------------------------------------------------
(* invalidate_cache *)

\* A plausible slip: the result does not depend on whether a file existed.
InvalidateAlwaysTrue(file) == [result |-> TRUE, file |-> NoFile]

invalidate_cache(file) ==
    IF file # NoFile THEN [result |-> TRUE, file |-> NoFile]
    ELSE [result |-> FALSE, file |-> file]

----------------------------------------------------------------------------
(* The requests of Spec *)

FunctionIds == {"A"}
CaseIds == {"c1"}

\* The keyword parameters of a call: state and county, in either order,
\* and possibly an empty "years" after them.
Kwargs ==
    LET base == {<<<<"state", "TX">>, <<"county", "48">>>>,
                 <<<<"county", "48">>, <<"state", "TX">>>>}
    IN  base \cup {kw \o <<<<"years", "">>>> : kw \in base}

\* Payloads handed to set_cached_response: two JSON documents, and an object
\* json.dump cannot serialize.
Payloads == {[id |-> "p1"], [id |-> "p2"], [id |-> "x", object |-> TRUE]}

IoOutcomes == {"ok", "open_error"}
WriteOutcomes == {"ok", "open_error", "write_error"}

\* A record as an earlier run or a damaged disk may have left it: valid JSON
\* whose expiry is missing or is no timestamp.
StampDoc(stamp) ==
    [shape |-> "dict", function_id |-> "A", case_id |-> "c1",
     response_data |-> [id |-> "p1"],
     cached_at |-> isoformat(0), cache_expires_at |-> stamp,
     cache_params |-> <<>>]

DamagedFiles == {Garbage, JsonFile(ListDoc), JsonFile(StampDoc(BadStamp)),
                 JsonFile(StampDoc(NoStamp))}

SpecKeys == {_get_cache_key(f, c, kw) : f \in FunctionIds, c \in CaseIds, kw \in Kwargs}

\* A file of another request, left in the directory by an earlier run; no
\* operation of Spec addresses it.
OtherKey == "fabric_B_c0_48141_10y.json"
OtherFile ==
    JsonFile(CachePayload("B", "c0", [id |-> "p0"], 0,
                          DEFAULT_TTL_HOURS,
                          <<<<"zip_code", "48141">>, <<"years", "10y">>>>))

NoLast == [op |-> "none"]

----------------------------------------------------------------------------
(* Actions of Spec.  ret describes the operation just performed; `pre` is    *)
(* the file of its key as the operation found it.                          *)

Get(function_id, case_id, kw, io) ==
    LET key == _get_cache_key(function_id, case_id, kw)
        r == get_cached_response(files[key], now, io)
    IN  /\ files' = [files EXCEPT ![key] = r.file]
        /\ ret' = [op |-> "get", function_id |-> function_id, case_id |-> case_id,
                   kw |-> kw, key |-> key, io |-> io,
                   pre |-> files[key], result |-> r.result, raised |-> r.raised]
        /\ UNCHANGED <<now, last, gone, scope, procs, disk>>

Set(function_id, case_id, response_data, ttl_hours, kw, wr) ==
    LET key == _get_cache_key(function_id, case_id, kw)
        w == set_cached_response(files[key], function_id, case_id, response_data,
                                 ttl_hours, kw, now, wr)
        stored == wr = "ok" /\ Serializable(response_data)
    IN  /\ files' = [files EXCEPT ![key] = w.file]
        /\ ret' = [op |-> "set", key |-> key, wr |-> wr,
                   serializable |-> Serializable(response_data),
                   raised |-> w.raised]
        /\ last' = IF stored
                   THEN [op |-> "set", function_id |-> function_id,
                         case_id |-> case_id, kw |-> kw, key |-> key,
                         response_data |-> response_data, at |-> now,
                         ttl_hours |-> ttl_hours,
                         over |-> files[key].kind = "json"
                                  /\ files[key].doc # CachePayload(function_id, case_id,
                                         response_data, now, ttl_hours, kw)]
                   ELSE IF last.op = "set" /\ last.key = key /\ w.file # files[key]
                   THEN NoLast ELSE last
        /\ gone' = {g \in gone : g.key # key}
        /\ UNCHANGED <<now, scope, procs, disk>>

Invalidate(function_id, case_id, kw) ==
    LET key == _get_cache_key(function_id, case_id, kw)
        r == invalidate_cache(files[key])
    IN  /\ files' = [files EXCEPT ![key] = r.file]
        /\ ret' = [op |-> "invalidate", key |-> key,
                   existed |-> files[key] # NoFile, result |-> r.result]
        /\ last' = IF last.op = "set" /\ last.key = key THEN NoLast ELSE last
        /\ gone' = {g \in gone : g.key # key}
                       \cup {[key |-> key, existed |-> files[key] # NoFile]}
        /\ UNCHANGED <<now, scope, procs, disk>>

\* The clock advances by an hour.
Tick ==
    /\ now < MaxTime
    /\ now' = now + 1
    /\ ret' = [op |-> "tick"]
    /\ UNCHANGED <<files, last, gone, scope, procs, disk>>

\* The environment damages or replaces an existing cache file.
Damage(key, content) ==
    /\ files[key] # NoFile
    /\ files[key] # content
    /\ files' = [files EXCEPT ![key] = content]
    /\ ret' = [op |-> "damage", key |-> key]
    /\ last' = IF last.op = "set" /\ last.key = key THEN NoLast ELSE last
    /\ UNCHANGED <<now, gone, scope, procs, disk>>

----------------------------------------------------------------------------
(* Agent responses and reports of the get-or-fetch services *)

\* isinstance(x, dict) for a JSON value: None and lists carry a shape.
IsDict(x) == "shape" \notin DOMAIN x \/ x.shape = "dict"

\* A row of an agent response for the property summary or the ZIP stats.
\* `missing` names the fields the row does not have, `garbled` the fields
\* whose value does not parse as the type the code converts it to.
Row(county_code, claims_count, paid_total, avg_loss, missing, garbled) ==
    [county_code |-> county_code, claims_count |-> claims_count,
     paid_total |-> paid_total, avg_loss |-> avg_loss,
     missing |-> missing, garbled |-> garbled]

\* Scalar JSON values that may also be None are tagged with their type.
IntVal(n) == [shape |-> "int", v |-> n]
StrVal(s) == [shape |-> "str", s |-> s]

\* A row of a risk-assessment table: a mapping, as its items in key order.
DictRow(items) == [shape |-> "dict", items |-> items]

\* FabricAgentResponse.model_dump(): what ask_structured returns.
AgentResponse(status, rows, response) ==
    [status |-> status, columns |-> IntVal(0), rows |-> IntVal(rows),
     comments |-> StrVal(""), summary |-> StrVal(""), response |-> response]

\* A plausible slip: len(rows) for the sum of a field.
CountOf(rows, field) == Len(rows)

RECURSIVE SumOf(_, _)
SumOf(rows, field) ==
    IF rows = <<>> THEN 0 ELSE Head(rows)[field] + SumOf(Tail(rows), field)

RECURSIVE GCD(_, _)
GCD(a, b) == IF b = 0 THEN a ELSE GCD(b, a % b)

\* The quotient n / d (d > 0) as a fraction in lowest terms.
Quotient(n, d) == [num |-> n \div GCD(n, d), den |-> d \div GCD(n, d)]
Zero == [num |-> 0, den |-> 1]

\* FabricCountyClaimRow(**row_dict): its required fields.
CountyClaimRowFields ==
    {"county_code", "loss_year", "paid_total", "claims_count", "avg_paid_per_claim"}

\* A plausible slip: loss_year and avg_paid_per_claim declared Optional.
ParsesWithAggregatedFields(row) ==
    (row.missing \cup row.garbled) \cap {"county_code", "paid_total", "claims_count"}
        = {}

ParsesAsCountyClaimRow(row) ==
    (row.missing \cup row.garbled) \cap CountyClaimRowFields = {}

\* Required fields of the three report models (the Optional ones default).
PropertySummaryFields ==
    {"rows", "total_counties", "total_claims", "avg_paid_overall", "cached_at",
     "cache_expires_at"}
ZipClaimStatsFields ==
    {"zip_code", "years", "claim_frequency", "avg_loss", "cached_at",
     "cache_expires_at"}
RiskAssessmentFields ==
    {"county_code", "min_loss_threshold", "cached_at", "cache_expires_at"}

\* Model(**payload) validates: the payload is a mapping with the required fields.
Validates(payload, fields) == IsDict(payload) /\ fields \subseteq DOMAIN payload

\* d.get(key) for a mapping d, with None for a missing key.
GetOr(d, key, default) == IF key \in DOMAIN d THEN d[key] ELSE default

\* The model instance Model(**payload): the model's fields, the Optional
\* ones that the payload lacks set to None, every other key ignored.
ModelOf(payload, fields, optional) ==
    [f \in fields \cup optional |-> GetOr(payload, f, None)]

\* The response ask_structured returns for a failure it caught.
ErrorResponse(comments) ==
    [status |-> "error", columns |-> IntVal(0), rows |-> IntVal(0),
     comments |-> StrVal(comments), summary |-> StrVal(""), response |-> <<>>]

\* Required fields of FabricAgentResponse; comments, summary and response default.
AgentResponseFields == {"status", "columns", "rows"}

\* FoundryFabricDataAgentClient.ask_structured(...).model_dump().  output is
\* what client.responses.create does: it raises (network error, timeout,
\* authentication), or returns an empty output_text, a text that is not JSON,
\* or a text that parses to the JSON value output.parsed.
ask_structured(output) ==
    IF output.kind = "raises" THEN ErrorResponse("Error")
    ELSE IF output.kind = "empty" THEN ErrorResponse("Empty response from Foundry agent")
    ELSE IF output.kind = "non_json" THEN ErrorResponse("Invalid JSON from agent")
    ELSE IF ~Validates(output.parsed, AgentResponseFields)
    THEN ErrorResponse("Schema validation failed")
    ELSE [status |-> output.parsed.status,
          columns |-> output.parsed.columns,
          rows |-> output.parsed.rows,
          comments |-> GetOr(output.parsed, "comments", StrVal("")),
          summary |-> GetOr(output.parsed, "summary", StrVal("")),
          response |-> GetOr(output.parsed, "response", <<>>)]

\* ttl_hours=72 and timedelta(hours=72) of get_property_summary
PROPERTY_TTL_HOURS == 72

\* The outcome of a get-or-fetch call.  raised: an exception reached the
\* caller; result: the report or None; file: the cache file afterwards;
\* reads, calls, writes: how often the call invoked get_cached_response, the
\* agent function and set_cached_response.
Outcome(raised, result, file, reads, calls, writes) ==
    [raised |-> raised, result |-> result, file |-> file,
     reads |-> reads, calls |-> calls, writes |-> writes]

\* The cache look-up that opens each get-or-fetch operation.
CheckCache(file, force_refresh, t, io) ==
    IF force_refresh THEN [raised |-> FALSE, result |-> None, file |-> file]
    ELSE get_cached_response(file, t, io)

----------------------------------------------------------------------------
(* Function A: get_property_summary *)

KwA(state, county_code) == <<<<"state", state>>, <<"county", county_code>>>>

\* A plausible slip: no `if not rows` check before the aggregation.
FetchPropertySummaryKeepingEmpty(file, case_id, state, county_code, agent, t, wr, reads) ==
    IF agent.status = "error" \/ agent.status = "no_data"
    THEN Outcome(FALSE, None, file, reads, 1, 0)
    ELSE LET rows == SelectSeq(agent.response, ParsesAsCountyClaimRow)
             total_claims == SumOf(rows, "claims_count")
             summary ==
                 [rows |-> rows,
                  total_counties |->
                      Cardinality({rows[i].county_code : i \in 1..Len(rows)}),
                  total_claims |-> total_claims,
                  avg_paid_overall |->
                      IF total_claims > 0
                      THEN Quotient(SumOf(rows, "paid_total"), total_claims)
                      ELSE Zero,
                  cached_at |-> isoformat(t),
                  cache_expires_at |-> isoformat(t + PROPERTY_TTL_HOURS),
                  raw_response |-> agent]
             w == set_cached_response(file, "A", case_id, summary,
                      PROPERTY_TTL_HOURS, KwA(state, county_code), t, wr)
         IN  Outcome(FALSE, summary, w.file, reads, 1, 1)

\* A plausible slip: the totals are added to those of the record already cached.
FetchPropertySummaryAccumulating(file, case_id, state, county_code, agent, t, wr, reads) ==
    LET rows == SelectSeq(agent.response, ParsesAsCountyClaimRow)
        kept == file.kind = "json"
        total_claims == SumOf(rows, "claims_count")
                            + (IF kept THEN file.doc.response_data.total_claims ELSE 0)
        summary ==
            [rows |-> rows,
             total_counties |-> Cardinality({rows[i].county_code : i \in 1..Len(rows)}),
             total_claims |-> total_claims,
             avg_paid_overall |->
                 IF total_claims > 0
                 THEN Quotient(SumOf(rows, "paid_total"), total_claims) ELSE Zero,
             cached_at |-> isoformat(t),
             cache_expires_at |-> isoformat(t + PROPERTY_TTL_HOURS),
             raw_response |-> agent]
        w == set_cached_response(file, "A", case_id, summary,
                 PROPERTY_TTL_HOURS, KwA(state, county_code), t, wr)
    IN  IF rows = <<>> THEN Outcome(FALSE, None, file, reads, 1, 0)
        ELSE Outcome(FALSE, summary, w.file, reads, 1, 1)

\* The fetch (the try block of get_property_summary).
FetchPropertySummary(file, case_id, state, county_code, agent, t, wr, reads) ==
    IF agent.status = "error" \/ agent.status = "no_data"
    THEN Outcome(FALSE, None, file, reads, 1, 0)
    ELSE LET rows == SelectSeq(agent.response, ParsesAsCountyClaimRow)
         IN  IF rows = <<>> THEN Outcome(FALSE, None, file, reads, 1, 0)
             ELSE LET total_counties ==
                          Cardinality({rows[i].county_code : i \in 1..Len(rows)})
                      total_claims == SumOf(rows, "claims_count")
                      total_paid == SumOf(rows, "paid_total")
                      avg_paid_overall ==
                          IF total_claims > 0 THEN Quotient(total_paid, total_claims)
                          ELSE Zero
                      summary ==
                          [rows |-> rows, total_counties |-> total_counties,
                           total_claims |-> total_claims,
                           avg_paid_overall |-> avg_paid_overall,
                           cached_at |-> isoformat(t),
                           cache_expires_at |-> isoformat(t + PROPERTY_TTL_HOURS),
                           raw_response |-> agent]
                      w == set_cached_response(file, "A", case_id, summary,
                               PROPERTY_TTL_HOURS, KwA(state, county_code), t, wr)
                  IN  IF w.raised THEN Outcome(FALSE, None, w.file, reads, 1, 1)
                      ELSE Outcome(FALSE, summary, w.file, reads, 1, 1)

\* A plausible slip: force_refresh also deletes the cached record.
GetPropertySummaryInvalidating(file, case_id, state, county_code, force_refresh, agent, t, io, wr) ==
    LET kept == IF force_refresh THEN invalidate_cache(file).file ELSE file
        c == CheckCache(kept, force_refresh, t, io)
        reads == IF force_refresh THEN 0 ELSE 1
    IN  IF c.raised THEN Outcome(TRUE, None, c.file, reads, 0, 0)
        ELSE IF /\ IsHit(c.result)
                /\ "response_data" \in DOMAIN c.result
                /\ Validates(c.result.response_data, PropertySummaryFields)
        THEN Outcome(FALSE,
                     ModelOf(c.result.response_data, PropertySummaryFields,
                             {"raw_response"}),
                     c.file, reads, 0, 0)
        ELSE FetchPropertySummary(c.file, case_id, state, county_code, agent, t, wr,
                                  reads)

get_property_summary(file, case_id, state, county_code, force_refresh, agent, t, io, wr) ==
    LET c == CheckCache(file, force_refresh, t, io)
        reads == IF force_refresh THEN 0 ELSE 1
    IN  IF c.raised THEN Outcome(TRUE, None, c.file, reads, 0, 0)
        ELSE IF /\ IsHit(c.result)
                /\ "response_data" \in DOMAIN c.result
                /\ Validates(c.result.response_data, PropertySummaryFields)
        THEN Outcome(FALSE,
                     ModelOf(c.result.response_data, PropertySummaryFields,
                             {"raw_response"}),
                     c.file, reads, 0, 0)
        ELSE FetchPropertySummary(c.file, case_id, state, county_code, agent, t, wr,
                                  reads)

\* refresh_property_summary: invalidate, then fetch with force_refresh.
refresh_property_summary(file, case_id, state, county_code, agent, t, io, wr) ==
    get_property_summary(invalidate_cache(file).file, case_id, state, county_code,
                         TRUE, agent, t, io, wr)

----------------------------------------------------------------------------
(* Function B: get_zip_stats *)

\* f"{years}y" and str(min_loss), for the numbers the requests use.
Str(n) == IF n = 10 THEN "10" ELSE IF n = 1000 THEN "1000" ELSE "0"

KwB(zip_code, years) == <<<<"zip_code", zip_code>>, <<"years", Str(years) \o "y">>>>

\* row.get(field, 0)
RowGet(row, field) == IF field \in row.missing THEN 0 ELSE row[field]

\* int(...) or float(...) of a row's claims_count or avg_loss raises.
RowRaises(row) == row.garbled \cap {"claims_count", "avg_loss"} # {}

\* A plausible slip: the row averages are summed without their weights.
RECURSIVE SumAvgLoss(_)
SumAvgLoss(rows) ==
    IF rows = <<>> THEN 0
    ELSE RowGet(Head(rows), "avg_loss") + SumAvgLoss(Tail(rows))

RECURSIVE SumPaid(_)
SumPaid(rows) ==
    IF rows = <<>> THEN 0
    ELSE RowGet(Head(rows), "avg_loss") * RowGet(Head(rows), "claims_count")
             + SumPaid(Tail(rows))

RECURSIVE SumClaims(_)
SumClaims(rows) ==
    IF rows = <<>> THEN 0
    ELSE RowGet(Head(rows), "claims_count") + SumClaims(Tail(rows))

\* A plausible slip: the status of the agent response is not looked at.
FetchZipStatsIgnoringStatus(file, case_id, zip_code, years, agent, t, wr, reads) ==
    IF \E i \in 1..Len(agent.response) : RowRaises(agent.response[i])
    THEN Outcome(FALSE, None, file, reads, 1, 0)
    ELSE LET total_claims == SumClaims(agent.response)
             total_paid == SumPaid(agent.response)
             avg_loss == IF total_claims > 0 THEN Quotient(total_paid, total_claims)
                         ELSE Zero
             stats == [zip_code |-> zip_code, years |-> years,
                       claim_frequency |-> total_claims, avg_loss |-> avg_loss,
                       cached_at |-> isoformat(t),
                       cache_expires_at |-> isoformat(t + CACHE_TTL_HOURS),
                       raw_response |-> agent]
             w == set_cached_response(file, "B", case_id, stats, CACHE_TTL_HOURS,
                                      KwB(zip_code, years), t, wr)
         IN  IF w.raised THEN Outcome(FALSE, None, w.file, reads, 1, 1)
             ELSE Outcome(FALSE, stats, w.file, reads, 1, 1)

\* A plausible slip: an agent response without data is asked for again.
FetchZipStatsRetrying(file, case_id, zip_code, years, agent, t, wr, reads) ==
    IF agent.status = "error" \/ agent.status = "no_data"
    THEN Outcome(FALSE, None, file, reads, 2, 0)
    ELSE LET total_claims == SumClaims(agent.response)
             stats == [zip_code |-> zip_code, years |-> years,
                       claim_frequency |-> total_claims, avg_loss |-> Zero,
                       cached_at |-> isoformat(t),
                       cache_expires_at |-> isoformat(t + CACHE_TTL_HOURS),
                       raw_response |-> agent]
         IN  Outcome(FALSE, stats, file, reads, 1, 0)

\* The fetch (the try block of get_zip_stats).
FetchZipStats(file, case_id, zip_code, years, agent, t, wr, reads) ==
    IF agent.status = "error" \/ agent.status = "no_data"
    THEN Outcome(FALSE, None, file, reads, 1, 0)
    ELSE IF \E i \in 1..Len(agent.response) : RowRaises(agent.response[i])
    THEN Outcome(FALSE, None, file, reads, 1, 0)
    ELSE LET total_claims == SumClaims(agent.response)
             total_paid == SumPaid(agent.response)
             avg_loss == IF total_claims > 0 THEN Quotient(total_paid, total_claims)
                         ELSE Zero
             stats == [zip_code |-> zip_code, years |-> years,
                       claim_frequency |-> total_claims, avg_loss |-> avg_loss,
                       cached_at |-> isoformat(t),
                       cache_expires_at |-> isoformat(t + CACHE_TTL_HOURS),
                       raw_response |-> agent]
             w == set_cached_response(file, "B", case_id, stats, CACHE_TTL_HOURS,
                                      KwB(zip_code, years), t, wr)
         IN  IF w.raised THEN Outcome(FALSE, None, w.file, reads, 1, 1)
             ELSE Outcome(FALSE, stats, w.file, reads, 1, 1)

\* A plausible slip: the cached report is built but not returned, the
\* request goes on to the agent.
GetZipStatsAlwaysFetching(file, case_id, zip_code, years, force_refresh, agent, t, io, wr) ==
    LET c == CheckCache(file, force_refresh, t, io)
        reads == IF force_refresh THEN 0 ELSE 1
    IN  IF c.raised THEN Outcome(TRUE, None, c.file, reads, 0, 0)
        ELSE FetchZipStats(c.file, case_id, zip_code, years, agent, t, wr, reads)

get_zip_stats(file, case_id, zip_code, years, force_refresh, agent, t, io, wr) ==
    LET c == CheckCache(file, force_refresh, t, io)
        reads == IF force_refresh THEN 0 ELSE 1
    IN  IF c.raised THEN Outcome(TRUE, None, c.file, reads, 0, 0)
        ELSE IF IsHit(c.result)
        THEN LET response_data == GetOr(c.result, "response_data", c.result)
             IN  IF Validates(response_data, ZipClaimStatsFields)
                 THEN Outcome(FALSE,
                              ModelOf(response_data, ZipClaimStatsFields,
                                      {"raw_response"}),
                              c.file, reads, 0, 0)
                 ELSE Outcome(TRUE, None, c.file, reads, 0, 0)
        ELSE FetchZipStats(c.file, case_id, zip_code, years, agent, t, wr, reads)

refresh_zip_stats(file, case_id, zip_code, years, agent, t, io, wr) ==
    get_zip_stats(invalidate_cache(file).file, case_id, zip_code, years, TRUE,
                  agent, t, io, wr)

----------------------------------------------------------------------------
(* Function C: the table normalizer, the payload upgrader, get_risk_assessment *)

\* int(value) of a str: the numerals the model uses.
Numerals == {"0", "10", "1000"}
ParseInt(str) == IF str = "10" THEN 10 ELSE IF str = "1000" THEN 1000 ELSE 0

\* A float: its integral part and its first decimal; float("inf").
FloatVal(whole, tenth) == [shape |-> "float", whole |-> whole, tenth |-> tenth]
Infinity == [shape |-> "inf"]

\* int(value) raises something other than TypeError and ValueError: the
\* OverflowError of int(float("inf")), which _coerce_int does not catch.
CoerceIntRaises(value) == value.shape = "inf"

\* What _coerce_int returns when it returns: int(value) truncates a float
\* and parses a str of digits; any other value is a TypeError or ValueError.
_coerce_int(value) ==
    IF value.shape = "none" THEN None
    ELSE IF value.shape = "int" THEN value
    ELSE IF value.shape = "str" /\ value.s \in Numerals THEN IntVal(ParseInt(value.s))
    ELSE IF value.shape = "float" THEN IntVal(value.whole)
    ELSE None

RECURSIVE AppendNewKeys(_, _)
AppendNewKeys(ordered_keys, items) ==
    IF items = <<>> THEN ordered_keys
    ELSE AppendNewKeys(
             IF \E i \in 1..Len(ordered_keys) : ordered_keys[i] = Head(items)[1]
             THEN ordered_keys ELSE Append(ordered_keys, Head(items)[1]),
             Tail(items))

RECURSIVE DeriveFrom(_, _)
DeriveFrom(ordered_keys, rows) ==
    IF rows = <<>> THEN ordered_keys
    ELSE DeriveFrom(AppendNewKeys(ordered_keys, Head(rows).items), Tail(rows))

\* A plausible slip: every key is appended, seen before or not.
RECURSIVE DeriveWithRepeats(_)
DeriveWithRepeats(rows) ==
    IF rows = <<>> THEN <<>>
    ELSE [j \in 1..Len(Head(rows).items) |-> Head(rows).items[j][1]]
             \o DeriveWithRepeats(Tail(rows))

_derive_column_keys(rows) == DeriveFrom(<<>>, rows)

\* A plausible slip: only the keys that are str already are kept.
RECURSIVE StrKeysOnly(_)
StrKeysOnly(column_keys) ==
    IF column_keys = <<>> THEN <<>>
    ELSE (IF Head(column_keys).shape = "str" THEN <<Head(column_keys).s>>
          ELSE <<>>) \o StrKeysOnly(Tail(column_keys))

\* [str(key) for key in column_keys if isinstance(key, (str, int, float))],
\* with str() of the one float the inputs use written out.
RECURSIVE ScalarKeys(_)
ScalarKeys(column_keys) ==
    IF column_keys = <<>> THEN <<>>
    ELSE (IF Head(column_keys).shape = "str" THEN <<Head(column_keys).s>>
          ELSE IF Head(column_keys).shape = "int" THEN <<Str(Head(column_keys).v)>>
          ELSE IF Head(column_keys).shape = "float"
          THEN <<IF Head(column_keys) = FloatVal(1, 5) THEN "1.5" ELSE "0.0">>
          ELSE <<>>) \o ScalarKeys(Tail(column_keys))

\* FabricAgentTable.model_dump()
AgentTable(status, column_count, row_count, summary, comments, response, column_keys) ==
    [status |-> status, column_count |-> column_count, row_count |-> row_count,
     summary |-> summary, comments |-> comments, response |-> response,
     column_keys |-> column_keys]

\* Optional[str]
IsOptionalStr(value) == value.shape \in {"none", "str"}

\* The keys of a mapping whose value has another JSON type than the one the
\* code tests for: a response or column_keys that is no list, a status that
\* is a truthy non-str.  The value stored under such a key is not looked at.
GarbledKeys(data) == GetOr(data, "garbled", {})

\* isinstance(data.get(key), list)
HoldsList(data, key) == key \in DOMAIN data /\ key \notin GarbledKeys(data)

\* A plausible slip: the loop stops at the first element that is no mapping.
RECURSIVE LeadingMappings(_)
LeadingMappings(raw_rows) ==
    IF raw_rows = <<>> \/ ~IsDict(Head(raw_rows)) THEN <<>>
    ELSE <<Head(raw_rows)>> \o LeadingMappings(Tail(raw_rows))

KeptRowsUntilOther(data) ==
    IF HoldsList(data, "response") THEN LeadingMappings(data.response) ELSE <<>>

\* Lines 132-140: the elements of data["response"] that are mappings.
KeptRows(data) ==
    IF HoldsList(data, "response") THEN SelectSeq(data.response, IsDict) ELSE <<>>

\* Lines 131-158 for a mapping: exc, FabricAgentTable(...) or the
\* evaluation of one of its arguments raised; value, the table.
TryBuildAgentTable(data) ==
    LET status == IF "status" \in DOMAIN data /\ "status" \notin GarbledKeys(data)
                     /\ Truthy(data.status)
                  THEN data.status ELSE "unknown"
        rows == KeptRows(data)
        column_keys == IF HoldsList(data, "column_keys")
                       THEN ScalarKeys(data.column_keys)
                       ELSE _derive_column_keys(rows)
        columns == GetOr(data, "columns", None)
        declared == GetOr(data, "rows", None)
        \* `_coerce_int(...) or len(rows)`: None and 0 are falsy
        row_count == IF _coerce_int(declared) # None /\ _coerce_int(declared).v # 0
                     THEN _coerce_int(declared)
                     ELSE IntVal(Len(rows))
        summary == GetOr(data, "summary", None)
        comments == GetOr(data, "comments", None)
    IN  IF \/ CoerceIntRaises(columns) \/ CoerceIntRaises(declared)
           \/ "status" \in GarbledKeys(data)
           \/ ~IsOptionalStr(summary) \/ ~IsOptionalStr(comments)
        THEN [exc |-> TRUE, value |-> None]
        ELSE [exc |-> FALSE,
              value |-> AgentTable(status, _coerce_int(columns), row_count, summary,
                                   comments, rows, column_keys)]

\* A plausible slip: no except clause around FabricAgentTable(...).
BuildAgentTableNoExcept(data) ==
    IF ~IsDict(data) THEN [raised |-> FALSE, value |-> None]
    ELSE LET t == TryBuildAgentTable(data)
         IN  [raised |-> t.exc, value |-> t.value]

\* _build_agent_table with what it does to its caller: raised, an exception
\* left it; value, the table or None.
BuildAgentTable(data) ==
    IF ~IsDict(data) THEN [raised |-> FALSE, value |-> None]
    ELSE LET t == TryBuildAgentTable(data)
         IN  [raised |-> FALSE, value |-> IF t.exc THEN None ELSE t.value]

_build_agent_table(data) == BuildAgentTable(data).value

\* A plausible slip: any table counts as data, also one without rows.
TableIsPresent(table) == table # None

_table_has_rows(table) == table # None /\ Len(table.response) > 0

\* A plausible slip: no fallback to the legacy flat rows.
UpgradeTableWithoutLegacy(data, raw_key, legacy_key) ==
    [raised |-> FALSE, value |-> _build_agent_table(GetOr(data, raw_key, None))]

\* One table of _upgrade_cached_payload: from the embedded raw payload, else
\* from the legacy flat rows.  raised: building the table raised, which it
\* does outside any try block: rows[0], len(rows[0]) or row.keys() of a
\* legacy value that is no list of mappings.
UpgradeTable(data, raw_key, legacy_key) ==
    LET table == _build_agent_table(GetOr(data, raw_key, None))
    IN  IF table # None \/ legacy_key \notin DOMAIN data
        THEN [raised |-> FALSE, value |-> table]
        ELSE IF legacy_key \in GarbledKeys(data)
        THEN [raised |-> TRUE, value |-> None]
        ELSE IF data[legacy_key] = <<>>
        THEN [raised |-> FALSE, value |-> table]
        ELSE LET rows == data[legacy_key]
             IN  IF \E i \in 1..Len(rows) : ~IsDict(rows[i])
                 THEN [raised |-> TRUE, value |-> None]
                 ELSE [raised |-> FALSE,
                       value |-> AgentTable("success", IntVal(Len(rows[1].items)),
                                            IntVal(Len(rows)), None, None, rows,
                                            _derive_column_keys(rows))]

\* A plausible slip: the deprecated fields are not popped.
UpgradeKeepingLegacy(data) ==
    IF ~IsDict(data) THEN [raised |-> FALSE, value |-> <<>>]
    ELSE LET severity == UpgradeTable(data, "raw_severity", "severity_rows")
             large == UpgradeTable(data, "raw_large_losses", "large_losses")
             keys == DOMAIN data \cup {"severity_table", "large_losses_table"}
         IN  IF severity.raised \/ large.raised
             THEN [raised |-> TRUE, value |-> <<>>]
             ELSE [raised |-> FALSE,
                   value |-> [k \in keys |->
                                IF k = "severity_table" /\ k \notin DOMAIN data
                                THEN severity.value
                                ELSE IF k = "large_losses_table" /\ k \notin DOMAIN data
                                THEN large.value
                                ELSE data[k]]]

\* A plausible slip: the tables are rebuilt whether or not they are present.
UpgradeAlwaysRebuilding(data) ==
    IF ~IsDict(data) THEN [raised |-> FALSE, value |-> <<>>]
    ELSE LET severity == UpgradeTable(data, "raw_severity", "severity_rows")
             large == UpgradeTable(data, "raw_large_losses", "large_losses")
             keys == (DOMAIN data \cup {"severity_table", "large_losses_table"})
                         \ {"severity_rows", "large_losses"}
         IN  IF severity.raised \/ large.raised
             THEN [raised |-> TRUE, value |-> <<>>]
             ELSE [raised |-> FALSE,
                   value |-> [k \in keys |->
                                IF k = "severity_table" THEN severity.value
                                ELSE IF k = "large_losses_table" THEN large.value
                                ELSE data[k]]]

_upgrade_cached_payload(data) ==
    IF ~IsDict(data) THEN [raised |-> FALSE, value |-> <<>>]
    ELSE LET severity == IF "severity_table" \in DOMAIN data
                         THEN [raised |-> FALSE, value |-> data.severity_table]
                         ELSE UpgradeTable(data, "raw_severity", "severity_rows")
             large == IF "large_losses_table" \in DOMAIN data
                      THEN [raised |-> FALSE, value |-> data.large_losses_table]
                      ELSE UpgradeTable(data, "raw_large_losses", "large_losses")
             keys == (DOMAIN data \cup {"severity_table", "large_losses_table"})
                         \ {"severity_rows", "large_losses"}
         IN  IF severity.raised \/ large.raised
             THEN [raised |-> TRUE, value |-> <<>>]
             ELSE [raised |-> FALSE,
                   value |-> [k \in keys |->
                                IF k = "severity_table" THEN severity.value
                                ELSE IF k = "large_losses_table" THEN large.value
                                ELSE data[k]]]

KwC(county_code, min_loss) ==
    <<<<"county", county_code>>, <<"min_loss", Str(min_loss)>>>>

\* A plausible slip: the assessment is returned without being cached.
FetchRiskAssessmentNotCaching(file, case_id, county_code, min_loss, raw_response, t, wr, reads) ==
    LET severity_data == raw_response.severity
        large_losses_data == raw_response.large_losses
        severity_table == _build_agent_table(severity_data)
        large_losses_table == _build_agent_table(large_losses_data)
    IN  IF ~_table_has_rows(severity_table) /\ ~_table_has_rows(large_losses_table)
        THEN Outcome(FALSE, None, file, reads, 1, 0)
        ELSE Outcome(FALSE,
                     [severity_table |-> severity_table,
                      large_losses_table |-> large_losses_table,
                      county_code |-> county_code,
                      min_loss_threshold |-> min_loss,
                      cached_at |-> isoformat(t),
                      cache_expires_at |-> isoformat(t + CACHE_TTL_HOURS),
                      raw_severity |-> severity_data,
                      raw_large_losses |-> large_losses_data],
                     file, reads, 1, 1)

\* The fetch (the try block of get_risk_assessment).  raw_response is what
\* risk_assessment_severity_and_large_losses returns.
FetchRiskAssessment(file, case_id, county_code, min_loss, raw_response, t, wr, reads) ==
    LET severity_data == raw_response.severity
        large_losses_data == raw_response.large_losses
        severity_table == _build_agent_table(severity_data)
        large_losses_table == _build_agent_table(large_losses_data)
    IN  IF ~_table_has_rows(severity_table) /\ ~_table_has_rows(large_losses_table)
        THEN Outcome(FALSE, None, file, reads, 1, 0)
        ELSE LET assessment ==
                     [severity_table |-> severity_table,
                      large_losses_table |-> large_losses_table,
                      county_code |-> county_code,
                      min_loss_threshold |-> min_loss,
                      cached_at |-> isoformat(t),
                      cache_expires_at |-> isoformat(t + CACHE_TTL_HOURS),
                      raw_severity |-> severity_data,
                      raw_large_losses |-> large_losses_data]
                 w == set_cached_response(file, "C", case_id, assessment,
                          CACHE_TTL_HOURS, KwC(county_code, min_loss), t, wr)
             IN  IF w.raised THEN Outcome(FALSE, None, w.file, reads, 1, 1)
                 ELSE Outcome(FALSE, assessment, w.file, reads, 1, 1)

RiskOptionalFields ==
    {"severity_table", "large_losses_table", "raw_severity", "raw_large_losses"}

get_risk_assessment(file, case_id, county_code, min_loss, force_refresh, raw_response, t, io, wr) ==
    LET c == CheckCache(file, force_refresh, t, io)
        reads == IF force_refresh THEN 0 ELSE 1
    IN  IF c.raised THEN Outcome(TRUE, None, c.file, reads, 0, 0)
        ELSE IF IsHit(c.result)
        THEN LET response_data == GetOr(c.result, "response_data", c.result)
                 upgraded == _upgrade_cached_payload(response_data)
             IN  IF ~upgraded.raised /\ Validates(upgraded.value, RiskAssessmentFields)
                 THEN Outcome(FALSE,
                              ModelOf(upgraded.value, RiskAssessmentFields,
                                      RiskOptionalFields),
                              c.file, reads, 0, 0)
                 ELSE Outcome(TRUE, None, c.file, reads, 0, 0)
        ELSE FetchRiskAssessment(c.file, case_id, county_code, min_loss, raw_response,
                                 t, wr, reads)

refresh_risk_assessment(file, case_id, county_code, min_loss, raw_response, t, io, wr) ==
    get_risk_assessment(invalidate_cache(file).file, case_id, county_code, min_loss,
                        TRUE, raw_response, t, io, wr)

----------------------------------------------------------------------------
(* The requests of SpecFetch: one request per report type *)

CaseId == "c1"
State == "TX"
CountyCode == "48"
ZipCode == "48141"
Years == 10
MinLoss == 1000

KeyA == _get_cache_key("A", CaseId, KwA(State, CountyCode))
KeyB == _get_cache_key("B", CaseId, KwB(ZipCode, Years))
KeyC == _get_cache_key("C", CaseId, KwC(CountyCode, MinLoss))

FetchKey == IF scope = "A" THEN KeyA ELSE IF scope = "B" THEN KeyB ELSE KeyC

\* Rows the agent may return for the property summary and the ZIP stats: a
\* well-formed one, one without claims_count, one whose claims_count is no number.
AgentRows ==
    {Row("48", 2, 10, 5, {}, {}),
     Row("48", 0, 10, 5, {"claims_count"}, {}),
     Row("48", 0, 10, 5, {}, {"claims_count"})}

RowSeqs(rows) == UNION {[1..n -> rows] : n \in 0..FetchMaxRows}

\* The JSON bodies the agent may answer with: a status without data, a
\* table, a table without the optional fields, an object without the
\* required "columns", a list.
AgentBodies ==
    {AgentResponse("error", 0, <<>>), AgentResponse("no_data", 0, <<>>)}
        \cup {AgentResponse("success", Len(r), r) : r \in RowSeqs(AgentRows)}
        \cup {[status |-> "success", columns |-> IntVal(0), rows |-> IntVal(Len(r)),
               response |-> r] : r \in RowSeqs(AgentRows)}
        \cup {[status |-> "success", rows |-> IntVal(Len(r)), response |-> r] :
                 r \in RowSeqs(AgentRows)}
        \cup {ListDoc}

AgentOutputs ==
    {[kind |-> k] : k \in {"raises", "empty", "non_json"}}
        \cup {[kind |-> "json", parsed |-> b] : b \in AgentBodies}

\* What property_support_summary and decisioning_claim_freq_avg_loss_zip return.
AgentResponses == {ask_structured(o) : o \in AgentOutputs}

\* The two responses behind a risk assessment.
RiskRows == {DictRow(<<<<"year", "2020">>, <<"severity", "5">>>>)}

RiskResponses ==
    {AgentResponse("error", 0, <<>>)}
        \cup {AgentResponse("success", Len(r), r) : r \in RowSeqs(RiskRows)}

RawRiskResponses ==
    {[severity |-> sv, large_losses |-> ll] : sv \in RiskResponses, ll \in RiskResponses}

NoAgent == [status |-> "not_called"]

\* A record whose response_data fits none of the report models, and a
\* risk-assessment record in the legacy shape (flat rows, no tables), as an
\* earlier version of the program or a damaged disk may have left them.
MismatchFile ==
    JsonFile(CachePayload(scope, CaseId, [foo |-> StrVal("bar")], 0, CACHE_TTL_HOURS,
                          <<>>))

LegacyRiskFile ==
    JsonFile(CachePayload("C", CaseId,
                 [severity_rows |-> <<DictRow(<<<<"year", "2020">>>>)>>,
                  large_losses |-> <<>>,
                  county_code |-> CountyCode, min_loss_threshold |-> MinLoss,
                  cached_at |-> isoformat(0),
                  cache_expires_at |-> isoformat(CACHE_TTL_HOURS)],
                 0, CACHE_TTL_HOURS, KwC(CountyCode, MinLoss)))

FetchDamagedFiles ==
    {Garbage, MismatchFile} \cup (IF scope = "C" THEN {LegacyRiskFile} ELSE {})

----------------------------------------------------------------------------
(* Actions of SpecFetch.  ret records the inputs the call consumed: io if it *)
(* read the cache, agent if it called the agent, wr if it wrote the cache.  *)

FetchRet(op, key, force_refresh, agent, io, wr, o) ==
    [op |-> op, key |-> key, force |-> force_refresh,
     agent |-> IF o.calls > 0 THEN agent ELSE NoAgent,
     io |-> IF o.reads > 0 THEN io ELSE "none",
     wr |-> IF o.writes > 0 THEN wr ELSE "none",
     pre |-> files[key], result |-> o.result, raised |-> o.raised,
     reads |-> o.reads, calls |-> o.calls, writes |-> o.writes]

\* The keyword parameters and the TTL the operations of this run's report
\* type hand to the cache.
FetchKw ==
    IF scope = "A" THEN KwA(State, CountyCode)
    ELSE IF scope = "B" THEN KwB(ZipCode, Years)
    ELSE KwC(CountyCode, MinLoss)

FetchTtl == IF scope = "A" THEN PROPERTY_TTL_HOURS ELSE CACHE_TTL_HOURS

Done(op, key, force_refresh, agent, io, wr, o) ==
    /\ files' = [files EXCEPT ![key] = o.file]
    /\ ret' = FetchRet(op, key, force_refresh, agent, io, wr, o)
    /\ last' = IF o.writes > 0 /\ wr = "ok"
               THEN [op |-> "set", function_id |-> scope, case_id |-> CaseId,
                     kw |-> FetchKw, key |-> key, response_data |-> o.result,
                     at |-> now, ttl_hours |-> FetchTtl,
                     over |-> files[key] # NoFile]
               ELSE IF o.file # files[key] THEN NoLast ELSE last
    /\ UNCHANGED <<now, gone, scope, procs, disk>>

GetPropertySummary(force_refresh, agent, io, wr) ==
    /\ scope = "A"
    /\ Done("get_property_summary", KeyA, force_refresh, agent, io, wr,
            get_property_summary(files[KeyA], CaseId, State, CountyCode,
                                 force_refresh, agent, now, io, wr))

RefreshPropertySummary(agent, io, wr) ==
    /\ scope = "A"
    /\ Done("refresh_property_summary", KeyA, TRUE, agent, io, wr,
            refresh_property_summary(files[KeyA], CaseId, State, CountyCode, agent,
                                     now, io, wr))

GetZipStats(force_refresh, agent, io, wr) ==
    /\ scope = "B"
    /\ Done("get_zip_stats", KeyB, force_refresh, agent, io, wr,
            get_zip_stats(files[KeyB], CaseId, ZipCode, Years, force_refresh, agent,
                          now, io, wr))

RefreshZipStats(agent, io, wr) ==
    /\ scope = "B"
    /\ Done("refresh_zip_stats", KeyB, TRUE, agent, io, wr,
            refresh_zip_stats(files[KeyB], CaseId, ZipCode, Years, agent, now, io, wr))

GetRiskAssessment(force_refresh, raw_response, io, wr) ==
    /\ scope = "C"
    /\ Done("get_risk_assessment", KeyC, force_refresh, raw_response, io, wr,
            get_risk_assessment(files[KeyC], CaseId, CountyCode, MinLoss,
                                force_refresh, raw_response, now, io, wr))

RefreshRiskAssessment(raw_response, io, wr) ==
    /\ scope = "C"
    /\ Done("refresh_risk_assessment", KeyC, TRUE, raw_response, io, wr,
            refresh_risk_assessment(files[KeyC], CaseId, CountyCode, MinLoss,
                                    raw_response, now, io, wr))

\* The clock jumps past the TTL of the records written so far.
Elapse(d) ==
    /\ now + d <= CACHE_TTL_HOURS + MaxLate
    /\ now' = now + d
    /\ ret' = [op |-> "tick"]
    /\ UNCHANGED <<files, last, gone, scope, procs, disk>>

----------------------------------------------------------------------------
(* Specification of the cache API *)

Keys == SpecKeys \cup {OtherKey, KeyA, KeyB, KeyC}

Init ==
    /\ files = [k \in Keys |-> IF k = OtherKey THEN OtherFile ELSE NoFile]
    /\ now = 0
    /\ ret = [op |-> "init"]
    /\ last = NoLast
    /\ gone = {}
    /\ scope = "cache"
    /\ procs = <<>>
    /\ disk = NoDisk

Next ==
    \/ \E f \in FunctionIds, c \in CaseIds, kw \in Kwargs, io \in IoOutcomes :
           Get(f, c, kw, io)
    \/ \E f \in FunctionIds, c \in CaseIds, p \in Payloads, ttl \in 0..MaxTtl,
          kw \in Kwargs, wr \in WriteOutcomes :
           Set(f, c, p, ttl, kw, wr)
    \/ \E f \in FunctionIds, c \in CaseIds, kw \in Kwargs : Invalidate(f, c, kw)
    \/ Tick
    \/ \E k \in SpecKeys, d \in DamagedFiles : Damage(k, d)

Spec == Init /\ [][Next]_vars

----------------------------------------------------------------------------
(* Specification of the get-or-fetch services *)

InitFetch ==
    /\ files = [k \in Keys |-> IF k = OtherKey THEN OtherFile ELSE NoFile]
    /\ now = 0
    /\ ret = [op |-> "init"]
    /\ last = NoLast
    /\ gone = {}
    /\ scope \in {"A", "B", "C"}
    /\ procs = <<>>
    /\ disk = NoDisk

NextFetch ==
    \/ \E force \in BOOLEAN, agent \in AgentResponses, io \in IoOutcomes,
          wr \in WriteOutcomes :
           GetPropertySummary(force, agent, io, wr)
    \/ \E agent \in AgentResponses, io \in IoOutcomes, wr \in WriteOutcomes :
           RefreshPropertySummary(agent, io, wr)
    \/ \E force \in BOOLEAN, agent \in AgentResponses, io \in IoOutcomes,
          wr \in WriteOutcomes :
           GetZipStats(force, agent, io, wr)
    \/ \E agent \in AgentResponses, io \in IoOutcomes, wr \in WriteOutcomes :
           RefreshZipStats(agent, io, wr)
    \/ \E force \in BOOLEAN, raw \in RawRiskResponses, io \in IoOutcomes,
          wr \in WriteOutcomes :
           GetRiskAssessment(force, raw, io, wr)
    \/ \E raw \in RawRiskResponses, io \in IoOutcomes, wr \in WriteOutcomes :
           RefreshRiskAssessment(raw, io, wr)
    \/ \E d \in CACHE_TTL_HOURS..(CACHE_TTL_HOURS + MaxLate) : Elapse(d)
    \/ \E d \in FetchDamagedFiles : Damage(FetchKey, d)

SpecFetch == InitFetch /\ [][NextFetch]_vars

----------------------------------------------------------------------------
(* Specification of the aggregations: the part of the two fetches between  *)
(* the agent's answer and the report, applied to a table of rows           *)

\* Rows of an agent table: two well-formed ones of different counties, one
\* without claims, one of a repeated county, and rows that lack a field or
\* carry a value that is no number.
AggRows ==
    {Row("48", 10, 1000, 100, {}, {}),
     Row("29", 5, 200, 40, {}, {}),
     Row("48", 0, 0, 0, {}, {}),
     Row("48", 3, 20, 7, {}, {}),
     Row("29", 2, 10, 5, {"claims_count"}, {}),
     Row("29", 2, 10, 5, {"loss_year"}, {}),
     Row("29", 2, 10, 5, {}, {"paid_total"}),
     Row("29", 2, 10, 5, {}, {"claims_count"})}

AggTables == UNION {[1..n -> AggRows] : n \in 0..MaxAggRows}

InitAgg ==
    /\ files = [k \in Keys |-> IF k = OtherKey THEN OtherFile ELSE NoFile]
    /\ now = 0
    /\ ret \in {[op |-> "table", rows |-> r] : r \in AggTables}
    /\ last = NoLast
    /\ gone = {}
    /\ scope \in {"A", "B"}
    /\ procs = <<>>
    /\ disk = NoDisk

\* Lines 81-116 of get_property_summary, on a successful agent response.
AggregateProperty ==
    /\ scope = "A"
    /\ ret.op = "table"
    /\ LET o == FetchPropertySummary(NoFile, CaseId, State, CountyCode,
                     AgentResponse("success", Len(ret.rows), ret.rows), now, "ok", 0)
       IN  ret' = [op |-> "property_summary", rows |-> ret.rows,
                   result |-> o.result, raised |-> o.raised, writes |-> o.writes]
    /\ UNCHANGED <<files, now, last, gone, scope, procs, disk>>

\* Lines 85-108 of get_zip_stats, on a successful agent response.
AggregateZip ==
    /\ scope = "B"
    /\ ret.op = "table"
    /\ LET o == FetchZipStats(NoFile, CaseId, ZipCode, Years,
                     AgentResponse("success", Len(ret.rows), ret.rows), now, "ok", 0)
       IN  ret' = [op |-> "zip_stats", rows |-> ret.rows,
                   result |-> o.result, raised |-> o.raised, writes |-> o.writes]
    /\ UNCHANGED <<files, now, last, gone, scope, procs, disk>>

\* Lines 81-116 of get_property_summary a second time on the same rows:
\* later or not, over the record the first run cached or over no record,
\* with a storage that takes the write or not.
AggregatePropertyAgain(over, d, wr) ==
    /\ scope = "A"
    /\ ret.op = "property_summary"
    /\ LET agent == AgentResponse("success", Len(ret.rows), ret.rows)
           first == FetchPropertySummary(NoFile, CaseId, State, CountyCode, agent,
                                         now, "ok", 0)
           file == IF over THEN first.file ELSE NoFile
           o == FetchPropertySummary(file, CaseId, State, CountyCode, agent,
                                     now + d, wr, 0)
       IN  ret' = [op |-> "property_summary_again", rows |-> ret.rows,
                   first |-> ret.result, over |-> file # NoFile, later |-> d > 0,
                   result |-> o.result, raised |-> o.raised]
    /\ UNCHANGED <<files, now, last, gone, scope, procs, disk>>

NextAgg ==
    \/ AggregateProperty
    \/ AggregateZip
    \/ \E over \in BOOLEAN, d \in {0, PROPERTY_TTL_HOURS}, wr \in WriteOutcomes :
           AggregatePropertyAgain(over, d, wr)

SpecAgg == InitAgg /\ [][NextAgg]_vars

----------------------------------------------------------------------------
(* Specification of concurrent requests: two requests for the same key,    *)
(* each a get_zip_stats or a refresh_zip_stats call, in worker processes   *)
(* that share the cache directory.  Nothing                                *)
(* in the code coordinates them, so their file operations interleave: the  *)
(* exists() test, the open-and-load, the unlink of an expired file, the    *)
(* agent call, the truncating open and each write to the file are steps    *)
(* of their own.  File semantics are those of POSIX: open(path, "w")       *)
(* truncates the file at the path or creates it, each writer writes at its *)
(* own offset, an unlinked file stays writable through the descriptors     *)
(* that were open on it.                                                   *)

Requests == {1, 2}

MaxRaceRows == 1    \* rows of an agent response in SpecRace
MaxRaceTicks == 1   \* hours the clock of SpecRace advances

\* The clock starts after the expiry of a record written at hour 0.
RaceStart == CACHE_TTL_HOURS + 1

\* What the agent answers in SpecRace: an error, or a table of 0..MaxRaceRows rows.
RaceAgents ==
    {AgentResponse("error", 0, <<>>)}
        \cup {AgentResponse("success", n, [i \in 1..n |-> Row("48", 2, 10, 5, {}, {})]) :
                 n \in 0..MaxRaceRows}

\* The text json.dump writes is cut into chunks: the unit of one write to
\* the file.  A record with more rows is a longer text, of more chunks; two
\* records of the same agent table have the same layout, and differ in
\* their timestamps only.
ChunksOf(doc) == 1 + Len(doc.response_data.raw_response.response)
Hole == [i |-> 0]                            \* a chunk nobody wrote
Chunk(doc, k) == [i |-> k, doc |-> doc]
CellsOf(doc) == [k \in 1..ChunksOf(doc) |-> Chunk(doc, k)]
SameLayout(d, e) == d.response_data.raw_response = e.response_data.raw_response

\* The file a writer leaves when it writes chunk k at offset k.
PutChunk(cells, k, c) ==
    [j \in 1..(IF k > Len(cells) THEN k ELSE Len(cells)) |->
        IF j = k THEN c ELSE IF j <= Len(cells) THEN cells[j] ELSE Hole]

\* What json.load makes of the file: nothing to open, text that is no JSON
\* (an empty file, a truncated text, chunks of texts of different layouts),
\* or a record.  Chunks of same-layout texts of different writers read as
\* one record, with the leading fields of the writer of the first chunk
\* (response_data and its timestamps) and the trailing fields of the writer
\* of the last (cached_at, cache_expires_at).
Decode(d) ==
    IF ~d.exists THEN NoFile
    ELSE IF d.cells = <<>> THEN Garbage
    ELSE LET n == Len(d.cells)
         IN  IF /\ \A k \in 1..n : d.cells[k] # Hole
                /\ n = ChunksOf(d.cells[1].doc)
                /\ \A k \in 1..n : SameLayout(d.cells[k].doc, d.cells[1].doc)
             THEN JsonFile([d.cells[n].doc EXCEPT
                               !.response_data = d.cells[1].doc.response_data])
             ELSE Garbage

\* The file holds chunks of more than one writer.
Mixed(d) ==
    \E j, k \in 1..Len(d.cells) :
        d.cells[j] # Hole /\ d.cells[k] # Hole /\ d.cells[j].doc # d.cells[k].doc

\* A request before its first step.
Idle ==
    [op |-> "none", pc |-> "start", got |-> None, result |-> None, raised |-> FALSE,
     doc |-> None, off |-> 0, fd |-> "none"]

\* The records an earlier request left at hour t.
OldDoc(agent, t) ==
    FetchZipStats(NoFile, CaseId, ZipCode, Years, agent, t, "ok", 1).file.doc

OldDisks ==
    {NoDisk}
        \cup {[exists |-> TRUE, cells |-> CellsOf(OldDoc(a, t))] :
                 a \in RaceAgents \ {AgentResponse("error", 0, <<>>)},
                 t \in {0, RaceStart}}

\* The state after a step of request p that leaves the file as d.
RaceStep(p, local, d) ==
    /\ procs' = [procs EXCEPT ![p] = local]
    /\ disk' = d
    /\ files' = [files EXCEPT ![KeyB] = Decode(d)]

\* get_cached_response, line 44: cache_file.exists().
RaceExists(p) ==
    /\ procs[p].pc = "start"
    /\ RaceStep(p, [procs[p] EXCEPT !.op = "get",
                                    !.pc = IF disk.exists THEN "load" ELSE "fetch"],
                disk)
    /\ UNCHANGED <<now, ret, last, gone, scope>>

\* get_cached_response, lines 48-60 without the unlink, and the hit path of
\* get_zip_stats (lines 54-60): the file is opened and loaded as it is now.
\* A file removed since the exists() test makes open() raise, which the
\* except clause turns into a miss.
RaceLoad(p) ==
    /\ procs[p].pc = "load"
    /\ LET snap == Decode(disk)
           o == get_cached_response(snap, now, "ok")
           here == [procs[p] EXCEPT !.got = o.result]
       IN  IF o.raised
           THEN RaceStep(p, [here EXCEPT !.pc = "done", !.raised = TRUE], disk)
           ELSE IF IsHit(o.result)
           THEN LET response_data == GetOr(o.result, "response_data", o.result)
                IN  IF Validates(response_data, ZipClaimStatsFields)
                    THEN RaceStep(p, [here EXCEPT
                                        !.pc = "done",
                                        !.result = ModelOf(response_data,
                                                       ZipClaimStatsFields,
                                                       {"raw_response"})],
                                  disk)
                    ELSE RaceStep(p, [here EXCEPT !.pc = "done", !.raised = TRUE], disk)
           ELSE IF snap # NoFile /\ o.file = NoFile
           THEN RaceStep(p, [here EXCEPT !.pc = "unlink"], disk)
           ELSE RaceStep(p, [here EXCEPT !.pc = "fetch"], disk)
    /\ UNCHANGED <<now, ret, last, gone, scope>>

\* get_cached_response, line 55: cache_file.unlink() of the file found
\* expired.  It removes whatever is at the path now; a writer that has the
\* file open keeps writing to the removed file.  Without a file it raises,
\* and the except clause returns the miss.
RaceUnlink(p) ==
    /\ procs[p].pc = "unlink"
    /\ procs' = [q \in Requests |->
                    IF q = p THEN [procs[q] EXCEPT !.pc = "fetch"]
                    ELSE IF disk.exists /\ procs[q].fd = "open"
                    THEN [procs[q] EXCEPT !.fd = "orphan"]
                    ELSE procs[q]]
    /\ disk' = NoDisk
    /\ files' = [files EXCEPT ![KeyB] = NoFile]
    /\ UNCHANGED <<now, ret, last, gone, scope>>

\* refresh_zip_stats calls invalidate_cache, line 116: cache_file.exists().
\* Without a file invalidate_cache returns False, and get_zip_stats with
\* force_refresh goes to the agent without reading the cache.
RaceInvalidateExists(p) ==
    /\ procs[p].pc = "start"
    /\ RaceStep(p, [procs[p] EXCEPT !.op = "refresh",
                                    !.pc = IF disk.exists THEN "invalidate" ELSE "fetch"],
                disk)
    /\ UNCHANGED <<now, ret, last, gone, scope>>

\* invalidate_cache, line 117: cache_file.unlink(), in no try block.  It
\* removes whatever is at the path now; without a file it raises
\* FileNotFoundError, which leaves invalidate_cache and refresh_zip_stats.
RaceInvalidateUnlink(p) ==
    /\ procs[p].pc = "invalidate"
    /\ IF disk.exists
       THEN /\ procs' = [q \in Requests |->
                           IF q = p THEN [procs[q] EXCEPT !.pc = "fetch"]
                           ELSE IF procs[q].fd = "open"
                           THEN [procs[q] EXCEPT !.fd = "orphan"]
                           ELSE procs[q]]
            /\ disk' = NoDisk
            /\ files' = [files EXCEPT ![KeyB] = NoFile]
       ELSE RaceStep(p, [procs[p] EXCEPT !.pc = "done", !.raised = TRUE], disk)
    /\ UNCHANGED <<now, ret, last, gone, scope>>

\* get_zip_stats, lines 65-108: the agent call and the report.
RaceFetch(p, agent) ==
    /\ procs[p].pc = "fetch"
    /\ LET o == FetchZipStats(NoFile, CaseId, ZipCode, Years, agent, now, "ok", 1)
       IN  IF o.result = None
           THEN RaceStep(p, [procs[p] EXCEPT !.pc = "done"], disk)
           ELSE RaceStep(p, [procs[p] EXCEPT !.pc = "open", !.result = o.result], disk)
    /\ UNCHANGED <<now, ret, last, gone, scope>>

\* set_cached_response, lines 86-98: the payload is built and the file is
\* opened for writing, which empties it.
RaceOpen(p) ==
    /\ procs[p].pc = "open"
    /\ LET w == set_cached_response(NoFile, "B", CaseId, procs[p].result,
                    CACHE_TTL_HOURS, KwB(ZipCode, Years), now, "ok")
       IN  RaceStep(p, [procs[p] EXCEPT !.pc = "write", !.doc = w.file.doc,
                                        !.off = 0, !.fd = "open"],
                    [exists |-> TRUE, cells |-> <<>>])
    /\ UNCHANGED <<now, ret, last, gone, scope>>

\* set_cached_response, lines 99-101: one chunk is written at the writer's
\* offset; after the last one the file is closed and the report returned.
RaceWrite(p) ==
    /\ procs[p].pc = "write"
    /\ LET k == procs[p].off + 1
           finished == k = ChunksOf(procs[p].doc)
           local == [procs[p] EXCEPT !.off = k,
                                     !.pc = IF finished THEN "done" ELSE "write",
                                     !.fd = IF finished THEN "closed" ELSE @]
       IN  /\ RaceStep(p, local,
                       IF procs[p].fd = "open"
                       THEN [disk EXCEPT !.cells = PutChunk(disk.cells, k,
                                                       Chunk(procs[p].doc, k))]
                       ELSE disk)
           /\ last' = IF finished
                      THEN [op |-> "set", by |-> p, doc |-> procs[p].doc]
                      ELSE last
    /\ UNCHANGED <<now, ret, gone, scope>>

\* get_cached_response called by a third party while the two requests run:
\* the whole of lines 44-64 between two steps of the others.  during: a
\* set_cached_response had the file open and was not finished; mixed: the
\* file held chunks of more than one writer.
RaceGet ==
    /\ LET snap == Decode(disk)
           o == get_cached_response(snap, now, "ok")
           evicted == snap # NoFile /\ o.file = NoFile
       IN  /\ ret' = [op |-> "get",
                      during |-> \E q \in Requests : procs[q].pc = "write",
                      mixed |-> Mixed(disk),
                      raised |-> o.raised, result |-> o.result]
           /\ disk' = IF evicted THEN NoDisk ELSE disk
           /\ files' = [files EXCEPT ![KeyB] = Decode(disk')]
           /\ procs' = [q \in Requests |->
                           IF evicted /\ procs[q].fd = "open"
                           THEN [procs[q] EXCEPT !.fd = "orphan"]
                           ELSE procs[q]]
    /\ UNCHANGED <<now, last, gone, scope>>

\* Time passes between the steps of the requests.
RaceTick ==
    /\ now < RaceStart + MaxRaceTicks
    /\ now' = now + 1
    /\ UNCHANGED <<files, ret, last, gone, scope, procs, disk>>

InitRace ==
    /\ disk \in OldDisks
    /\ files = [k \in Keys |-> IF k = OtherKey THEN OtherFile
                               ELSE IF k = KeyB THEN Decode(disk) ELSE NoFile]
    /\ now = RaceStart
    /\ ret = [op |-> "init"]
    /\ last = NoLast
    /\ gone = {}
    /\ scope = "B"
    /\ procs = [p \in Requests |-> Idle]

NextRace ==
    \/ \E p \in Requests : RaceExists(p)
    \/ \E p \in Requests : RaceLoad(p)
    \/ \E p \in Requests : RaceUnlink(p)
    \/ \E p \in Requests : RaceInvalidateExists(p)
    \/ \E p \in Requests : RaceInvalidateUnlink(p)
    \/ \E p \in Requests, agent \in RaceAgents : RaceFetch(p, agent)
    \/ \E p \in Requests : RaceOpen(p)
    \/ \E p \in Requests : RaceWrite(p)
    \/ RaceGet
    \/ RaceTick

SpecRace == InitRace /\ [][NextRace]_vars

----------------------------------------------------------------------------
(* Specification of the table normalizer and the payload upgrader: the     *)
(* pure functions _build_agent_table and _upgrade_cached_payload applied   *)
(* to well-formed and malformed inputs, and the cached read of             *)
(* get_risk_assessment over a stored payload                               *)

MaxTableRows == 3   \* elements of a "response" list in SpecTable

\* A key of an input mapping: missing, given a value, or given a value of
\* another type than the code tests for.  A missing or wrongly typed key
\* carries a filler of the type of the key's other values, which is not
\* looked at.
Missing(v) == [has |-> FALSE, bad |-> FALSE, v |-> v]
Given(v) == [has |-> TRUE, bad |-> FALSE, v |-> v]
Wrong(v) == [has |-> TRUE, bad |-> TRUE, v |-> v]

\* The mapping with the keys that opts gives a value to.
MakeDict(opts) ==
    LET keys == {k \in DOMAIN opts : opts[k].has}
    IN  [k \in keys \cup {"garbled"} |->
            IF k = "garbled" THEN {g \in keys : opts[g].bad} ELSE opts[k].v]

\* Rows that are mappings.  RowCA, which shares a key with RowAB, stands in
\* the stored payloads.
RowAB == DictRow(<<<<"a", "1">>, <<"b", "2">>>>)
RowC == DictRow(<<<<"c", "3">>>>)
RowCA == DictRow(<<<<"c", "3">>, <<"a", "4">>>>)

\* What _build_agent_table and _upgrade_cached_payload are given when it is
\* no mapping.
NonMappings == {None, ListDoc, StrVal("oops")}

\* The data argument of _build_agent_table: each key it reads, missing, of
\* the expected type or of another; a "response" list holds mappings and a
\* number.
TableInputs ==
    {MakeDict([status |-> st, response |-> rs, column_keys |-> ck, rows |-> rw,
               columns |-> cl, summary |-> sm]) :
         st \in {Missing(""), Given("success"), Given("partial"), Given(""), Wrong("")},
         rs \in {Missing(<<>>), Wrong(<<>>)}
                    \cup {Given(r) : r \in UNION {[1..n -> {RowAB, RowC, IntVal(5)}] :
                                                      n \in 0..MaxTableRows}},
         ck \in {Missing(<<>>), Wrong(<<>>), Given(<<StrVal("x"), IntVal(10), None>>),
                 Given(<<StrVal("b"), IntVal(10), FloatVal(1, 5)>>)},
         rw \in {Missing(None)}
                    \cup {Given(v) : v \in {None, IntVal(0), IntVal(10), StrVal("10"),
                                            StrVal("abc"), FloatVal(1, 5), Infinity}},
         cl \in {Missing(None), Given(IntVal(0)), Given(StrVal("abc"))},
         sm \in {Missing(None), Given(StrVal("s")), Given(IntVal(1))}}
        \cup NonMappings

StoredLargeLossesTable ==
    AgentTable("success", IntVal(2), IntVal(1), StrVal(""), StrVal(""), <<RowCA>>,
               <<"c", "a">>)

\* Stored risk-assessment payloads: with or without the current tables, the
\* embedded raw responses, the legacy flat rows and the scalar fields.
StoredPayloads ==
    {MakeDict([severity_table |-> st, raw_severity |-> rs, severity_rows |-> sr,
               large_losses_table |-> lt, raw_large_losses |-> rl,
               large_losses |-> ll,
               county_code |-> IF scalars THEN Given(CountyCode) ELSE Missing(""),
               min_loss_threshold |-> IF scalars THEN Given(MinLoss) ELSE Missing(0),
               cached_at |-> IF scalars THEN Given(isoformat(0)) ELSE Missing(None),
               cache_expires_at |-> IF scalars THEN Given(isoformat(CACHE_TTL_HOURS))
                                    ELSE Missing(None)]) :
         st \in {Missing(None), Given(None),
                 Given(AgentTable("success", IntVal(2), IntVal(1), StrVal(""),
                                  StrVal(""), <<RowAB>>, <<"a", "b">>))},
         rs \in {Missing(None), Given(None),
                 Given(AgentResponse("success", 1, <<RowCA>>)),
                 Given(AgentResponse("error", 0, <<>>))},
         sr \in {Missing(<<>>), Wrong(<<>>), Given(<<>>), Given(<<RowAB>>),
                 Given(<<RowCA, RowAB>>), Given(<<RowAB, IntVal(5)>>)},
         lt \in {Missing(None), Given(StoredLargeLossesTable)},
         rl \in {Missing(None), Given(AgentResponse("success", 1, <<RowAB>>))},
         ll \in {Missing(<<>>), Given(<<>>), Given(<<RowCA>>), Given(<<IntVal(5)>>)},
         scalars \in BOOLEAN}
        \cup NonMappings

BuildTable ==
    /\ ret.op = "data"
    /\ LET b == BuildAgentTable(ret.data)
       IN  ret' = [op |-> "_build_agent_table", data |-> ret.data,
                   raised |-> b.raised, value |-> b.value]
    /\ UNCHANGED <<files, now, last, gone, scope, procs, disk>>

UpgradePayload ==
    /\ ret.op = "payload"
    /\ LET u == _upgrade_cached_payload(ret.data)
       IN  ret' = [op |-> "_upgrade_cached_payload", data |-> ret.data,
                   raised |-> u.raised, value |-> u.value]
    /\ UNCHANGED <<files, now, last, gone, scope, procs, disk>>

\* The payload an upgrade returned, upgraded again.
UpgradeAgain ==
    /\ ret.op = "_upgrade_cached_payload"
    /\ ~ret.raised
    /\ LET u == _upgrade_cached_payload(ret.value)
       IN  ret' = [op |-> "upgrade_again", first |-> ret.data, data |-> ret.value,
                   raised |-> u.raised, value |-> u.value]
    /\ UNCHANGED <<files, now, last, gone, scope, procs, disk>>

\* get_risk_assessment, lines 53-59, over a live record that stores the payload.
ReadStoredPayload ==
    /\ ret.op = "payload"
    /\ LET file == JsonFile(CachePayload("C", CaseId, ret.data, now, CACHE_TTL_HOURS,
                                         KwC(CountyCode, MinLoss)))
           o == get_risk_assessment(file, CaseId, CountyCode, MinLoss, FALSE,
                    [severity |-> ErrorResponse(""), large_losses |-> ErrorResponse("")],
                    now, "ok", "ok")
       IN  ret' = [op |-> "get_risk_assessment", data |-> ret.data,
                   raised |-> o.raised, result |-> o.result, calls |-> o.calls]
    /\ UNCHANGED <<files, now, last, gone, scope, procs, disk>>

InitTable ==
    /\ files = [k \in Keys |-> IF k = OtherKey THEN OtherFile ELSE NoFile]
    /\ now = 0
    /\ ret \in {[op |-> "data", data |-> d] : d \in TableInputs}
                  \cup {[op |-> "payload", data |-> p] : p \in StoredPayloads}
    /\ last = NoLast
    /\ gone = {}
    /\ scope = "table"
    /\ procs = <<>>
    /\ disk = NoDisk

NextTable == BuildTable \/ UpgradePayload \/ UpgradeAgain \/ ReadStoredPayload

SpecTable == InitTable /\ [][NextTable]_vars

----------------------------------------------------------------------------
(* Specification of the cache keys: two requests, a set_cached_response    *)
(* for the first and a get_cached_response for the second, over an empty   *)
(* cache directory                                                         *)

\* Requests whose parameters differ in name, in value, in order, in an empty
\* value, and whose values or case_id contain the "_" that joins the parts.
KeyRequests ==
    {[function_id |-> f, case_id |-> c, kw |-> kw] :
         f \in {"A", "B"}, c \in {"c1", "c1_TX"},
         kw \in {<<>>,
                 <<<<"state", "TX">>>>,
                 <<<<"county", "TX">>>>,
                 <<<<"state", "TX">>, <<"county", "48">>>>,
                 <<<<"county", "48">>, <<"state", "TX">>>>,
                 <<<<"state", "48">>, <<"county", "TX">>>>,
                 <<<<"state", "TX">>, <<"years", "">>>>,
                 <<<<"county", "48_TX">>>>}}

InitKey ==
    /\ files = [k \in Keys |-> IF k = OtherKey THEN OtherFile ELSE NoFile]
    /\ now = 0
    /\ ret \in {[op |-> "requests", first |-> a, second |-> b] :
                    a \in KeyRequests, b \in KeyRequests}
    /\ last = NoLast
    /\ gone = {}
    /\ scope = "key"
    /\ procs = <<>>
    /\ disk = NoDisk

\* set_cached_response for the first request, then get_cached_response for
\* the second: it opens the file at its own key, which is the file just
\* written when the two keys are the same string.
WriteThenRead ==
    /\ ret.op = "requests"
    /\ LET a == ret.first
           b == ret.second
           written == _get_cache_key(a.function_id, a.case_id, a.kw)
           read == _get_cache_key(b.function_id, b.case_id, b.kw)
           w == set_cached_response(NoFile, a.function_id, a.case_id, [id |-> "p1"],
                                    DEFAULT_TTL_HOURS, a.kw, now, "ok")
           r == get_cached_response(IF read = written THEN w.file ELSE NoFile, now, "ok")
       IN  ret' = [op |-> "set_then_get", first |-> a, second |-> b,
                   written |-> written, read |-> read, result |-> r.result]
    /\ UNCHANGED <<files, now, last, gone, scope, procs, disk>>

NextKey == WriteThenRead

SpecKey == InitKey /\ [][NextKey]_vars

----------------------------------------------------------------------------
(* Claims about the cache API, checked under Spec *)

\* The parameters of a call as a mapping, whatever their order.
KwSet(kw) == {kw[i] : i \in 1..Len(kw)}

\* Every order in which the same parameters can be supplied.
Orders(kw) == {q \in [1..Len(kw) -> KwSet(kw)] : KwSet(q) = KwSet(kw)}

\* The parameters without those whose value is empty.
DropFalsy(kw) == SelectSeq(kw, LAMBDA p : Truthy(p[2]))

\* The record of the last write is still within its TTL.
LastUnexpired == now < last.at + last.ttl_hours

\* C1: a get that follows a set of the same (function_id, case_id, params),
\* before the TTL elapses, returns a record whose response_data is the payload
\* written, in whatever order the params were supplied to either call.
C1_CacheDeterminism ==
    (/\ ret.op = "get" /\ ret.io = "ok" /\ last.op = "set"
     /\ ret.function_id = last.function_id /\ ret.case_id = last.case_id
     /\ KwSet(ret.kw) = KwSet(last.kw)
     /\ LastUnexpired)
    => (IsHit(ret.result) /\ ret.result.response_data = last.response_data)

C1_Witness ==
    /\ ret.op = "get" /\ ret.io = "ok" /\ last.op = "set"
    /\ KwSet(ret.kw) = KwSet(last.kw) /\ ret.kw # last.kw
    /\ LastUnexpired
    /\ IsHit(ret.result) /\ ret.result.response_data = last.response_data

\* The file a get found is a readable record with a parsable expiry.
FoundRecord ==
    /\ ret.op = "get" /\ ret.io = "ok"
    /\ ret.pre.kind = "json" /\ ret.pre.doc.shape = "dict"
    /\ ret.pre.doc.cache_expires_at.tag = "iso"

\* C2 (as claimed): get returns the record exactly when now < cache_expires_at,
\* so a record written with ttl 0 is a miss even when read at the clock value
\* of the write.
C2_ValidIffBeforeExpiry ==
    FoundRecord =>
        ((ret.result = ret.pre.doc) <=> (now < ret.pre.doc.cache_expires_at.t))

\* C3: a get that finds an expired record deletes it; a get that is a hit or
\* finds no file leaves the whole directory as it was.
C3_LazyEviction ==
    [][ret'.op = "get" =>
         /\ ret'.pre = files[ret'.key]
         /\ (/\ ret'.io = "ok" /\ ret'.pre.kind = "json"
             /\ ret'.pre.doc.shape = "dict"
             /\ ret'.pre.doc.cache_expires_at.tag = "iso"
             /\ now' > ret'.pre.doc.cache_expires_at.t)
            => files' = [files EXCEPT ![ret'.key] = NoFile]
         /\ (IsHit(ret'.result) \/ ret'.pre = NoFile) => files' = files]_vars

C3_Witness ==
    /\ FoundRecord
    /\ now > ret.pre.doc.cache_expires_at.t
    /\ files[ret.key] = NoFile
    /\ files[OtherKey] = OtherFile

\* C4: the key does not depend on the order of the params, and params with an
\* empty value do not contribute: a lookup that differs from the write only in
\* order and in empty-valued params finds the record written.
C4_KeyConstruction ==
    /\ ret.op = "get" =>
         \A q \in Orders(ret.kw) :
             /\ _get_cache_key(ret.function_id, ret.case_id, q) = ret.key
             /\ _get_cache_key(ret.function_id, ret.case_id, DropFalsy(q)) = ret.key
    /\ (/\ ret.op = "get" /\ ret.io = "ok" /\ last.op = "set"
        /\ ret.function_id = last.function_id /\ ret.case_id = last.case_id
        /\ KwSet(DropFalsy(ret.kw)) = KwSet(DropFalsy(last.kw))
        /\ LastUnexpired)
       => (IsHit(ret.result) /\ ret.result.response_data = last.response_data)

C4_Witness ==
    /\ ret.op = "get" /\ ret.io = "ok" /\ last.op = "set"
    /\ Len(ret.kw) > Len(last.kw)
    /\ DropFalsy(ret.kw) # DropFalsy(last.kw)
    /\ KwSet(DropFalsy(ret.kw)) = KwSet(DropFalsy(last.kw))
    /\ IsHit(ret.result)

\* The file a get found cannot be read or parsed.
FoundUnreadable ==
    /\ ret.op = "get"
    /\ ret.pre # NoFile
    /\ \/ ret.io = "open_error"
       \/ ret.pre = Garbage
       \/ ret.pre = JsonFile(ListDoc)
       \/ ret.pre = JsonFile(StampDoc(BadStamp))

\* C7: get_cached_response never raises, and a file that cannot be opened, is
\* not JSON, is not an object or has an unparsable expiry is a miss.
C7_ReadErrorsAreMisses ==
    /\ ret.op = "get" => ~ret.raised
    /\ FoundUnreadable => ret.result = None

C7_Witness ==
    /\ FoundUnreadable /\ ret.io = "ok" /\ ret.pre = JsonFile(StampDoc(BadStamp))
    /\ ret.result = None /\ ~ret.raised

\* C9: invalidate_cache leaves no file for the key and returns whether one
\* existed; until the key is written again, every get of it is a miss.
C9_Invalidate ==
    /\ ret.op = "invalidate" =>
           (ret.result = ret.existed /\ files[ret.key] = NoFile)
    /\ (ret.op = "get" /\ \E g \in gone : g.key = ret.key) => ret.result = None

C9_Witness ==
    /\ ret.op = "get" /\ ret.io = "ok"
    /\ [key |-> ret.key, existed |-> TRUE] \in gone
    /\ ret.result = None

\* C10: a get of a key within the TTL of the last write to it returns exactly
\* the record of that write: its payload, its timestamps and its params.
C10_LastWriterWins ==
    (/\ ret.op = "get" /\ ret.io = "ok" /\ last.op = "set"
     /\ ret.key = last.key
     /\ LastUnexpired)
    => ret.result = CachePayload(last.function_id, last.case_id, last.response_data,
                                 last.at, last.ttl_hours, last.kw)

C10_Witness ==
    /\ ret.op = "get" /\ ret.io = "ok" /\ last.op = "set" /\ last.over
    /\ ret.key = last.key
    /\ LastUnexpired
    /\ IsHit(ret.result) /\ ret.result.response_data = last.response_data

----------------------------------------------------------------------------
(* Claims about the get-or-fetch services, checked under SpecFetch *)

GetOps == {"get_property_summary", "get_zip_stats", "get_risk_assessment"}
RefreshOps == {"refresh_property_summary", "refresh_zip_stats",
               "refresh_risk_assessment"}

\* The file the request found holds a record that reads as a hit at the
\* time of the request.
PreIsLiveRecord ==
    /\ ret.pre.kind = "json"
    /\ ret.pre.doc.shape = "dict"
    /\ ret.pre.doc.cache_expires_at.tag = "iso"
    /\ now <= ret.pre.doc.cache_expires_at.t

FetchFailed == ret.calls > 0 /\ ret.writes = 0

\* C5 (as claimed): a forced refresh invalidates the existing entry before
\* fetching, so when the fetch fails no cached record remains under the key.
C5_ForceRefreshInvalidates ==
    (ret.op \in GetOps \cup RefreshOps /\ ret.force /\ FetchFailed)
        => files[ret.key] = NoFile

\* C5 (amended): a get-or-fetch request with force_refresh skips the cache
\* read and always calls the agent; it leaves the existing entry exactly as it
\* was unless the fetch produces a report and writes it.  Only the refresh_*
\* operations invalidate first: after them a failed fetch leaves no record.
C5_ForceRefreshBypassesRead ==
    /\ (ret.op \in GetOps /\ ret.force) =>
           /\ ret.reads = 0
           /\ ret.calls > 0
           /\ FetchFailed => (files[ret.key] = ret.pre /\ ret.result = None)
    /\ (ret.op \in RefreshOps /\ FetchFailed) =>
           (files[ret.key] = NoFile /\ ret.result = None)

C5_Witness ==
    /\ ret.op \in GetOps
    /\ ret.force
    /\ FetchFailed
    /\ PreIsLiveRecord
    /\ IsHit(get_cached_response(files[ret.key], now, "ok").result)
    /\ files[ret.key] = ret.pre

\* C6 (as claimed): a cached record that is unreadable, malformed or of the
\* wrong schema is treated as a miss: no get-or-fetch request raises.
C6_BadCacheIsMiss ==
    ret.op \in GetOps \cup RefreshOps => ~ret.raised

\* C8: when the cache write fails (the storage refuses the open or the write),
\* the get-or-fetch request raises nothing and still returns the report it
\* has just built from the agent's response.
C8_WriteFailureKeepsResult ==
    (/\ ret.op \in GetOps \cup RefreshOps
     /\ ret.writes > 0
     /\ ret.wr \in {"open_error", "write_error"})
        => /\ ~ret.raised
           /\ ret.result # None
           /\ ret.result.cached_at = isoformat(now)
           /\ ret.result.cache_expires_at = isoformat(now + CACHE_TTL_HOURS)
           /\ ret.op \in {"get_risk_assessment", "refresh_risk_assessment"}
                  => ret.result.raw_severity = ret.agent.severity
           /\ ret.op \notin {"get_risk_assessment", "refresh_risk_assessment"}
                  => ret.result.raw_response = ret.agent
           /\ files[ret.key] =
                  IF ret.wr = "write_error" THEN Garbage
                  ELSE IF ret.op \in RefreshOps THEN NoFile
                  ELSE IF ret.force THEN ret.pre
                  ELSE get_cached_response(ret.pre, now, ret.io).file

C8_Witness ==
    /\ ret.op \in GetOps
    /\ ret.writes > 0
    /\ ret.wr = "open_error"
    /\ ~ret.raised
    /\ ret.result # None
    /\ ret.result.cached_at = isoformat(now)
    /\ files[ret.key] = ret.pre

----------------------------------------------------------------------------
(* Claims about the control flow of a request, checked under SpecFetch *)

\* The report model of the operation accepts the record's response_data.
Accepts(op, doc) ==
    LET response_data == GetOr(doc, "response_data", doc)
    IN  IF op = "get_property_summary"
        THEN "response_data" \in DOMAIN doc
                 /\ Validates(response_data, PropertySummaryFields)
        ELSE IF op = "get_zip_stats"
        THEN Validates(response_data, ZipClaimStatsFields)
        ELSE LET upgraded == _upgrade_cached_payload(response_data)
             IN  ~upgraded.raised /\ Validates(upgraded.value, RiskAssessmentFields)

\* The request was not forced and its cache read returned a record.
ReadReturnedRecord ==
    /\ ret.op \in GetOps
    /\ ~ret.force
    /\ IsHit(get_cached_response(ret.pre, now, ret.io).result)

\* C11 (as claimed): whenever an unexpired record for the key exists and
\* force_refresh is false, the request returns a report built from the record
\* and makes no agent call and no cache write.
C11_LiveRecordMeansNoAgentCall ==
    (ret.op \in GetOps /\ ~ret.force /\ PreIsLiveRecord)
        => (ret.calls = 0 /\ ret.writes = 0 /\ ret.result # None)

\* C11 (amended): the agent is called only after a forced refresh or a cache
\* read that gave no usable record; when the read returns an unexpired record
\* that the report model accepts and force_refresh is false, the request
\* returns the report built from that record, calls no agent, writes nothing
\* and leaves the file as it was.
C11_AgentOnlyOnMissOrForce ==
    /\ (ret.op \in GetOps /\ ret.calls > 0) =>
           \/ ret.force
           \/ ~ReadReturnedRecord
           \/ ~Accepts(ret.op, ret.pre.doc)
    /\ (ReadReturnedRecord /\ Accepts(ret.op, ret.pre.doc)) =>
           /\ ret.calls = 0
           /\ ret.writes = 0
           /\ ~ret.raised
           /\ ret.result # None
           /\ ret.result.cached_at = ret.pre.doc.response_data.cached_at
           /\ files[ret.key] = ret.pre

C11_Witness ==
    /\ ReadReturnedRecord
    /\ Accepts(ret.op, ret.pre.doc)
    /\ ret.op = "get_zip_stats"
    /\ ret.pre.doc.response_data.cached_at = isoformat(0)
    /\ now = CACHE_TTL_HOURS
    /\ ret.calls = 0
    /\ ret.result.claim_frequency = ret.pre.doc.response_data.claim_frequency

\* What the request's agent call returned, as the report embeds it.
EmbedsAgentResponse(report) ==
    IF ret.op \in {"get_risk_assessment", "refresh_risk_assessment"}
    THEN /\ report.raw_severity = ret.agent.severity
         /\ report.raw_large_losses = ret.agent.large_losses
    ELSE report.raw_response = ret.agent

\* C12: a request makes at most one cache read, at most one invocation of the
\* agent fetch function and at most one cache write; it writes only after its
\* agent fetch has completed: the record it writes carries the response of
\* that fetch.
C12_OneReadOneCallOneWrite ==
    ret.op \in GetOps \cup RefreshOps =>
        /\ ret.reads \in 0..1
        /\ ret.calls \in 0..1
        /\ ret.writes \in 0..1
        /\ ret.writes > 0 => (ret.calls > 0 /\ ret.agent # NoAgent)
        /\ (ret.writes > 0 /\ ret.wr = "ok") =>
               /\ files[ret.key].kind = "json"
               /\ EmbedsAgentResponse(files[ret.key].doc.response_data)
               /\ files[ret.key].doc.cached_at = isoformat(now)

C12_Witness ==
    /\ ret.op \in GetOps
    /\ ret.reads = 1
    /\ ret.calls = 1
    /\ ret.writes = 1
    /\ ret.wr = "ok"
    /\ ret.pre # NoFile
    /\ EmbedsAgentResponse(files[ret.key].doc.response_data)

\* The responses ask_structured makes of a transport or agent failure.
FailureResponses ==
    {ask_structured([kind |-> k]) : k \in {"raises", "empty", "non_json"}}
        \cup {ask_structured([kind |-> "json", parsed |-> b]) :
                b \in {ListDoc, [status |-> "success", rows |-> IntVal(0),
                                 response |-> <<>>],
                       AgentResponse("error", 0, <<>>),
                       AgentResponse("no_data", 0, <<>>)}}

\* The file the request's cache read (if any) left behind.
FileAfterRead ==
    IF ret.op \in RefreshOps THEN NoFile
    ELSE IF ret.force THEN ret.pre
    ELSE get_cached_response(ret.pre, now, ret.io).file

\* C13: when the agent call of get_property_summary or get_zip_stats fails
\* (the transport raises, the body is empty, not JSON or not of the response
\* schema, or its status is "error" or "no_data"), the operation returns None
\* without raising and writes no cache record: the file stays as the cache
\* read left it.
C13_AgentFailureIsAbsent ==
    (/\ ret.op \in {"get_property_summary", "get_zip_stats",
                    "refresh_property_summary", "refresh_zip_stats"}
     /\ ret.calls > 0
     /\ ret.agent \in FailureResponses)
        => /\ ~ret.raised
           /\ ret.result = None
           /\ ret.writes = 0
           /\ files[ret.key] = FileAfterRead

C13_Witness ==
    /\ ret.op = "get_zip_stats"
    /\ ret.force
    /\ ret.agent = ask_structured([kind |-> "non_json"])
    /\ PreIsLiveRecord
    /\ Accepts(ret.op, ret.pre.doc)
    /\ ret.result = None
    /\ files[ret.key] = ret.pre

\* C16: a request that returns a report obtained from the agent, with
\* writable storage, leaves the record of that report under its key; a
\* non-forced request with the same arguments that follows within the TTL,
\* with nothing else touching the file, is a hit: it returns the same report
\* (rows, aggregates, timestamps) and calls no agent.
C16_FetchedReportIsCached ==
    /\ (/\ ret.op \in GetOps \cup RefreshOps
        /\ ret.calls > 0 /\ ret.result # None /\ ret.wr = "ok") =>
           /\ files[ret.key] =
                  JsonFile(CachePayload(scope, CaseId, ret.result, now, FetchTtl,
                                        FetchKw))
           /\ last.op = "set" /\ last.response_data = ret.result
    /\ (/\ ret.op \in GetOps /\ ~ret.force /\ ret.io = "ok"
        /\ last.op = "set" /\ last.key = ret.key
        /\ ret.pre = JsonFile(CachePayload(last.function_id, last.case_id,
                                           last.response_data, last.at,
                                           last.ttl_hours, last.kw))
        /\ now < last.at + last.ttl_hours) =>
           /\ ret.calls = 0
           /\ ret.writes = 0
           /\ ret.result = last.response_data

C16_Witness ==
    /\ ret.op = "get_risk_assessment"
    /\ ~ret.force
    /\ last.op = "set" /\ last.key = ret.key
    /\ ret.pre.kind = "json" /\ ret.pre.doc.response_data = last.response_data
    /\ now < last.at + last.ttl_hours
    /\ ret.calls = 0
    /\ ret.result = last.response_data
    /\ _table_has_rows(ret.result.severity_table)

----------------------------------------------------------------------------
(* Claims about the aggregations, checked under SpecAgg *)

\* The sum of a field over the rows at the positions in idx.
RECURSIVE Total(_, _, _)
Total(rows, field, idx) ==
    IF idx = {} THEN 0
    ELSE LET i == CHOOSE j \in idx : TRUE
         IN  rows[i][field] + Total(rows, field, idx \ {i})

\* A fraction equals n / d.
IsRatio(q, n, d) == q.den > 0 /\ q.num * d = n * q.den

Summarized == ret.op = "property_summary" /\ ret.result # None

\* C17: over the rows that survive parsing, total_counties is the number of
\* distinct county_code values, total_claims the sum of claims_count, and
\* avg_paid_overall the sum of paid_total divided by the sum of claims_count,
\* or 0 when that sum is 0.
C17_PropertyAggregates ==
    Summarized =>
        LET r == ret.result
            idx == 1..Len(r.rows)
            claims == Total(r.rows, "claims_count", idx)
            paid == Total(r.rows, "paid_total", idx)
        IN  /\ r.total_counties = Cardinality({r.rows[i].county_code : i \in idx})
            /\ r.total_claims = claims
            /\ IF claims = 0 THEN r.avg_paid_overall = Zero
               ELSE IsRatio(r.avg_paid_overall, paid, claims)

C17_Witness ==
    /\ Summarized
    /\ Len(ret.result.rows) = 2
    /\ ret.result.total_counties = 2
    /\ ret.result.total_claims = 15
    /\ ret.result.avg_paid_overall = [num |-> 80, den |-> 1]

C17_ZeroClaimsWitness ==
    /\ Summarized
    /\ ret.result.total_claims = 0
    /\ ret.result.avg_paid_overall = Zero

\* The rows of the table in which each of the given fields is present and
\* well-formed, in the order of the table.
RowsWith(fields) ==
    SelectSeq(ret.rows, LAMBDA row : (row.missing \cup row.garbled) \cap fields = {})

C20_ZipWeightedAverage ==
    (ret.op = "zip_stats" /\ ret.result # None) =>
        LET idx == 1..Len(ret.rows)
            value(i, f) == IF f \in ret.rows[i].missing THEN 0 ELSE ret.rows[i][f]
            weighted == [i \in idx |->
                            [claims_count |-> value(i, "claims_count"),
                             paid |-> value(i, "avg_loss") * value(i, "claims_count")]]
            claims == Total(weighted, "claims_count", idx)
            paid == Total(weighted, "paid", idx)
        IN  /\ ret.result.claim_frequency = claims
            /\ IF claims = 0 THEN ret.result.avg_loss = Zero
               ELSE IsRatio(ret.result.avg_loss, paid, claims)
            /\ (\E i, j \in idx :
                    /\ i # j
                    /\ Len(ret.rows) = 2
                    /\ ret.rows[i] = Row("48", 10, 1000, 100, {}, {})
                    /\ ret.rows[j] = Row("29", 5, 200, 40, {}, {})) =>
                   /\ ret.result.claim_frequency = 15
                   /\ ret.result.avg_loss = [num |-> 80, den |-> 1]

C20_Witness ==
    /\ ret.op = "zip_stats"
    /\ ret.rows = <<Row("48", 10, 1000, 100, {}, {}), Row("29", 5, 200, 40, {}, {})>>
    /\ ret.result # None
    /\ ret.result.claim_frequency = 15
    /\ ret.result.avg_loss = [num |-> 80, den |-> 1]

----------------------------------------------------------------------------
(* Claims about the empty table, checked under SpecFetch *)

\* No row of the agent's answer has the five required fields well-formed.
NoRowSurvives ==
    \A i \in 1..Len(ret.agent.response) :
        (ret.agent.response[i].missing \cup ret.agent.response[i].garbled)
            \cap {"county_code", "loss_year", "paid_total", "claims_count",
                  "avg_paid_per_claim"} # {}

\* C19: when the agent answers get_property_summary with a table of which
\* no row survives parsing, the operation returns None without raising (no
\* division is attempted) and writes nothing to the cache.
C19_NoRowsIsAbsent ==
    (/\ ret.op \in {"get_property_summary", "refresh_property_summary"}
     /\ ret.calls > 0
     /\ ret.agent.status = "success"
     /\ NoRowSurvives)
        => /\ ~ret.raised
           /\ ret.result = None
           /\ ret.writes = 0
           /\ files[ret.key] = FileAfterRead

C19_Witness ==
    /\ ret.op = "get_property_summary"
    /\ ret.calls > 0
    /\ ret.agent.status = "success"
    /\ Len(ret.agent.response) > 0
    /\ NoRowSurvives
    /\ ret.result = None
    /\ ret.writes = 0

----------------------------------------------------------------------------
(* Claims about concurrent requests, checked under SpecRace *)

\* The records handed to set_cached_response so far, by the two requests or
\* by the earlier request that left the file the run starts with.
Written ==
    {procs[p].doc : p \in {q \in Requests : procs[q].doc # None}}
        \cup {d.cells[1].doc : d \in OldDisks \ {NoDisk}}

\* C14: when two concurrent requests for the same key have both fetched and
\* written and both have finished, the cache file holds exactly the record
\* of the write that finished last, and each caller has received, without an
\* exception, the report built from its own fetch.
C14_LastWriteWins ==
    (\A p \in Requests : procs[p].pc = "done" /\ procs[p].doc # None)
        => /\ files[KeyB] = JsonFile(last.doc)
           /\ \A p \in Requests :
                  /\ ~procs[p].raised
                  /\ procs[p].result = procs[p].doc.response_data

\* C15: a get_cached_response that runs while a set_cached_response on the
\* same key has opened the file and not finished writing it returns a
\* complete record that some writer wrote, or a miss, and does not raise.
C15_ReadDuringWriteIsWholeOrMiss ==
    (ret.op = "get" /\ ret.during)
        => /\ ~ret.raised
           /\ ret.result = None \/ ret.result \in Written

\* What does hold of such a read: it never raises, and it returns a miss or
\* a record some writer wrote whenever the file it loads holds chunks of at
\* most one writer.
ReadOfOneWriterIsWholeOrMiss ==
    ret.op = "get"
        => /\ ~ret.raised
           /\ ~ret.mixed => ret.result = None \/ ret.result \in Written

\* A read that found the file truncated or partly written by one writer.
ReadOfPartialFile ==
    /\ ret.op = "get" /\ ret.during /\ ~ret.mixed
    /\ ret.result = None

----------------------------------------------------------------------------
(* Claims about repeated aggregation, checked under SpecAgg *)

\* The aggregates of a property summary, or None.
Aggregates(summary) ==
    IF summary = None THEN None
    ELSE [total_counties |-> summary.total_counties,
          total_claims |-> summary.total_claims,
          avg_paid_overall |-> summary.avg_paid_overall]

----------------------------------------------------------------------------
(* Claims about the risk assessment fetch, checked under SpecFetch *)

\* The elements of a list that are mappings, in their order.
RECURSIVE Mappings(_)
Mappings(seq) ==
    IF seq = <<>> THEN <<>>
    ELSE (IF IsDict(Head(seq)) THEN <<Head(seq)>> ELSE <<>>) \o Mappings(Tail(seq))

RiskFetched == ret.op \in {"get_risk_assessment", "refresh_risk_assessment"}
                   /\ ret.calls > 0

\* C21: a risk assessment fetch returns nothing and caches nothing exactly if
\* neither normalized table has a row; with a row in at least one table the
\* assessment is returned with both tables and handed to the cache, which
\* holds it when the storage takes the write.
C21_FailureIffBothTablesEmpty ==
    RiskFetched =>
        LET severity == Mappings(ret.agent.severity.response)
            large == Mappings(ret.agent.large_losses.response)
        IN  /\ ~ret.raised
            /\ (ret.result = None) <=> (severity = <<>> /\ large = <<>>)
            /\ ret.result = None =>
                   ret.writes = 0 /\ files[ret.key] \in {ret.pre, NoFile}
            /\ ret.result # None =>
                   /\ ret.result.severity_table.response = severity
                   /\ ret.result.large_losses_table.response = large
                   /\ ret.writes = 1
                   /\ ret.wr = "ok" =>
                          files[ret.key] =
                              JsonFile(CachePayload("C", CaseId, ret.result, now,
                                           CACHE_TTL_HOURS, KwC(CountyCode, MinLoss)))

\* A fetch in which only the large-losses table has a row.
C21_Witness ==
    /\ RiskFetched
    /\ ret.agent.severity.response = <<>>
    /\ ret.agent.large_losses.response # <<>>
    /\ ret.result # None
    /\ ret.wr = "ok"
    /\ files[ret.key].kind = "json"
    /\ files[ret.key].doc.response_data = ret.result

\* A fetch in which neither table has a row.
C21_BothEmptyWitness ==
    /\ RiskFetched
    /\ ret.agent.severity.status = "success"
    /\ ret.agent.severity.response = <<>>
    /\ ret.agent.large_losses.response = <<>>
    /\ ret.result = None

----------------------------------------------------------------------------
(* Claims about the table normalizer, checked under SpecTable *)

Built == ret.op = "_build_agent_table"

\* The list an input mapping holds under a key, empty when it holds none.
SourceList(data, key) ==
    IF key \in DOMAIN data /\ key \notin data.garbled THEN data[key] ELSE <<>>

\* Nothing but the elements of the response is wrong with an input mapping.
RestIsWellFormed(data) ==
    /\ "status" \notin data.garbled
    /\ GetOr(data, "summary", None).shape \in {"none", "str"}
    /\ GetOr(data, "rows", None) # Infinity
    /\ GetOr(data, "columns", None) # Infinity

AgentTableFields ==
    {"status", "column_count", "row_count", "summary", "comments", "response",
     "column_keys"}

\* C23: _build_agent_table raises for no input; it returns None for an input
\* that is not a mapping, and a table or None for every other input.
C23_NormalizerNeverRaises ==
    Built =>
        /\ ~ret.raised
        /\ ~IsDict(ret.data) => ret.value = None
        /\ ret.value # None => DOMAIN ret.value = AgentTableFields

\* A mapping whose declared row count makes int() raise OverflowError, which
\* _coerce_int does not catch: no table, and no exception.
C23_Witness ==
    /\ Built
    /\ IsDict(ret.data)
    /\ GetOr(ret.data, "rows", None) = Infinity
    /\ ret.value = None
    /\ ~ret.raised

\* An input that is a list, not a mapping.
C23_NonMappingWitness == Built /\ ret.data = ListDoc /\ ret.value = None

\* C24: the rows of the table are exactly the elements of the source
\* "response" list that are mappings, in their order, and an element that is
\* no mapping does not keep the table from being built.
C24_KeptRowsAreTheMappings ==
    (Built /\ IsDict(ret.data)) =>
        /\ ret.value # None =>
               ret.value.response = Mappings(SourceList(ret.data, "response"))
        /\ RestIsWellFormed(ret.data) => ret.value # None

\* A number between two mappings is dropped, the mappings keep their order.
C24_Witness ==
    /\ Built /\ IsDict(ret.data)
    /\ SourceList(ret.data, "response") = <<RowC, IntVal(5), RowAB>>
    /\ ret.value # None
    /\ ret.value.response = <<RowC, RowAB>>

\* The keys of the rows, in the order in which the rows list them.
RECURSIVE FlatKeys(_)
FlatKeys(rows) ==
    IF rows = <<>> THEN <<>>
    ELSE [j \in 1..Len(Head(rows).items) |-> Head(rows).items[j][1]]
             \o FlatKeys(Tail(rows))

FirstIndex(seq, k) ==
    CHOOSE n \in 1..Len(seq) : seq[n] = k /\ \A m \in 1..(n - 1) : seq[m] # k

\* keys lists every key of the rows once, in the order of first appearance.
InFirstSeenOrder(keys, rows) ==
    LET flat == FlatKeys(rows)
    IN  /\ {keys[i] : i \in 1..Len(keys)} = {flat[n] : n \in 1..Len(flat)}
        /\ \A i, j \in 1..Len(keys) :
               i < j => FirstIndex(flat, keys[i]) < FirstIndex(flat, keys[j])

NoExplicitColumnKeys == ~("column_keys" \in DOMAIN ret.data
                             /\ "column_keys" \notin ret.data.garbled)

\* C25: without an explicit column key list in the source, column_keys of
\* the table lists the keys of the kept rows, each once, in the order of
\* first appearance: rows [{a, b}, {c}] give [a, b, c].
C25_ColumnKeysDerived ==
    (Built /\ IsDict(ret.data) /\ ret.value # None /\ NoExplicitColumnKeys) =>
        /\ InFirstSeenOrder(ret.value.column_keys, ret.value.response)
        /\ ret.value.response = <<RowAB, RowC>>
               => ret.value.column_keys = <<"a", "b", "c">>

C25_Witness ==
    /\ Built /\ IsDict(ret.data) /\ NoExplicitColumnKeys
    /\ ret.value # None
    /\ ret.value.response = <<RowAB, RowC>>
    /\ ret.value.column_keys = <<"a", "b", "c">>

\* Rows that repeat their keys.
C25_RepeatedKeysWitness ==
    /\ Built /\ IsDict(ret.data) /\ NoExplicitColumnKeys
    /\ ret.value # None
    /\ ret.value.response = <<RowC, RowAB, RowAB>>
    /\ ret.value.column_keys = <<"c", "a", "b">>

\* The declared value coerces to an integer, and the integer it coerces to.
Coerces(value) ==
    value.shape \in {"int", "float"} \/ (value.shape = "str" /\ value.s \in Numerals)
Coerced(value) ==
    IF value.shape = "int" THEN value.v
    ELSE IF value.shape = "float" THEN value.whole
    ELSE ParseInt(value.s)

\* C30: row_count of the table is the count the source declares whenever
\* the declared value coerces to an integer, a declared 0 included, and the
\* number of kept rows only when the declared value is absent or no number.
C30_DeclaredCountWins ==
    (Built /\ IsDict(ret.data) /\ ret.value # None) =>
        LET declared == GetOr(ret.data, "rows", None)
        IN  ret.value.row_count =
                IF Coerces(declared) THEN IntVal(Coerced(declared))
                ELSE IntVal(Len(ret.value.response))

\* What holds of row_count: the declared count when it coerces to an integer
\* other than 0, the number of kept rows otherwise.
NonZeroDeclaredCountWins ==
    (Built /\ IsDict(ret.data) /\ ret.value # None) =>
        LET declared == GetOr(ret.data, "rows", None)
        IN  ret.value.row_count =
                IF Coerces(declared) /\ Coerced(declared) # 0
                THEN IntVal(Coerced(declared))
                ELSE IntVal(Len(ret.value.response))

\* A source that declares no row and holds one.
DeclaredZeroWithRows ==
    /\ Built /\ IsDict(ret.data) /\ ret.value # None
    /\ GetOr(ret.data, "rows", None) = IntVal(0)
    /\ ret.value.response = <<RowAB>>
    /\ ret.value.row_count = IntVal(1)

----------------------------------------------------------------------------
(* Claims about the payload upgrader, checked under SpecTable *)

Upgraded == ret.op = "_upgrade_cached_payload"

DeprecatedFields == {"severity_rows", "large_losses"}
CurrentTableFields == {"severity_table", "large_losses_table"}

\* A payload of the legacy shape: no current table field, no embedded raw
\* response, and both flat-row fields, each a list of mappings.
IsLegacyPayload(data) ==
    /\ IsDict(data)
    /\ CurrentTableFields \cap DOMAIN data = {}
    /\ GetOr(data, "raw_severity", None) = None
    /\ GetOr(data, "raw_large_losses", None) = None
    /\ \A f \in DeprecatedFields :
           /\ f \in DOMAIN data /\ f \notin data.garbled
           /\ \A i \in 1..Len(data[f]) : IsDict(data[f][i])

\* The table the upgrade makes of non-empty legacy rows.
IsUpgradeOf(table, rows) ==
    /\ table # None
    /\ table.status = "success"
    /\ table.row_count = IntVal(Len(rows))
    /\ table.response = rows
    /\ InFirstSeenOrder(table.column_keys, rows)

\* C26: the upgrade of a legacy payload returns a payload in which each
\* table whose legacy rows were not empty is a table with status "success",
\* the legacy rows as its rows, their number as row_count and column_keys in
\* first-seen order.
C26_LegacyRowsBecomeTables ==
    (Upgraded /\ IsLegacyPayload(ret.data)) =>
        /\ ~ret.raised
        /\ ret.data.severity_rows # <<>> =>
               IsUpgradeOf(ret.value.severity_table, ret.data.severity_rows)
        /\ ret.data.large_losses # <<>> =>
               IsUpgradeOf(ret.value.large_losses_table, ret.data.large_losses)

C26_Witness ==
    /\ Upgraded /\ IsLegacyPayload(ret.data)
    /\ ret.data.severity_rows = <<RowCA, RowAB>>
    /\ ret.data.large_losses = <<RowCA>>
    /\ ret.value.severity_table.column_keys = <<"c", "a", "b">>
    /\ ret.value.severity_table.row_count = IntVal(2)
    /\ ret.value.large_losses_table.response = <<RowCA>>

\* A payload the upgrader returned carries no deprecated field.
Stripped ==
    (ret.op \in {"_upgrade_cached_payload", "upgrade_again"} /\ ~ret.raised)
        => DeprecatedFields \cap DOMAIN ret.value = {}

\* C27 as stated: every payload the upgrader returns is without
\* severity_rows and large_losses, and the upgrade of a payload the upgrader
\* returned returns it unchanged.
C27_StripsAndIsIdempotent ==
    /\ Stripped
    /\ ret.op = "upgrade_again" => ~ret.raised /\ ret.value = ret.data

\* C27: every payload the upgrader returns is without severity_rows and
\* large_losses, and the upgrade of a payload the upgrader returned for a
\* mapping returns it unchanged.
C27_StripsAndIsIdempotentOnMappings ==
    /\ Stripped
    /\ (ret.op = "upgrade_again" /\ IsDict(ret.first))
           => ~ret.raised /\ ret.value = ret.data

\* A payload with legacy rows, upgraded and upgraded again.
C27_Witness ==
    /\ ret.op = "upgrade_again"
    /\ IsDict(ret.first)
    /\ DeprecatedFields \subseteq DOMAIN ret.first
    /\ ret.data.severity_table # None
    /\ ret.value = ret.data

\* The empty payload returned for a stored value that is no mapping, upgraded
\* again, gains the two table fields.
UpgradeOfEmptyPayloadGrows ==
    /\ ret.op = "upgrade_again"
    /\ ~IsDict(ret.first)
    /\ DOMAIN ret.data = {}
    /\ DOMAIN ret.value = CurrentTableFields

\* C28: _upgrade_cached_payload raises for no stored payload, and the cached
\* read of get_risk_assessment that uses it does not fail.
C28_UpgraderNeverRaises ==
    /\ Upgraded => ~ret.raised
    /\ ret.op = "get_risk_assessment" => ~ret.raised

\* Legacy rows that hold a number make the upgrade raise.
UpgradeRaisesOnNonMappingRow ==
    /\ Upgraded
    /\ "severity_rows" \in DOMAIN ret.data
    /\ "severity_rows" \notin ret.data.garbled
    /\ ret.data.severity_rows = <<RowAB, IntVal(5)>>
    /\ ret.raised

\* C29: with severity_table and large_losses_table both present in the
\* stored payload, the upgrade returns every field but the deprecated ones
\* with the value it had, the two tables included.
C29_PresentTablesPassThrough ==
    (Upgraded /\ IsDict(ret.data) /\ CurrentTableFields \subseteq DOMAIN ret.data) =>
        /\ ~ret.raised
        /\ DOMAIN ret.value = DOMAIN ret.data \ DeprecatedFields
        /\ \A k \in DOMAIN ret.value : ret.value[k] = ret.data[k]

\* Both tables present, next to a raw response and legacy rows from which
\* another table could be made.
C29_Witness ==
    /\ Upgraded /\ IsDict(ret.data) /\ CurrentTableFields \subseteq DOMAIN ret.data
    /\ ret.data.severity_table = None
    /\ GetOr(ret.data, "raw_severity", None) = AgentResponse("success", 1, <<RowCA>>)
    /\ "severity_rows" \in DOMAIN ret.data
    /\ ret.value.severity_table = None
    /\ ret.value.large_losses_table = StoredLargeLossesTable

----------------------------------------------------------------------------
(* Claims about supplied column keys and the status, checked under SpecTable *)

\* A str, an int or a float.
IsScalar(value) == value.shape \in {"str", "int", "float"}

\* str(value) of the scalars the inputs hold.
TextOf(value) ==
    IF value = StrVal("x") THEN "x"
    ELSE IF value = StrVal("b") THEN "b"
    ELSE IF value = IntVal(10) THEN "10"
    ELSE IF value = FloatVal(1, 5) THEN "1.5"
    ELSE "?"

SuppliesScalarKeys(data) ==
    /\ IsDict(data)
    /\ HoldsList(data, "column_keys")
    /\ \A i \in 1..Len(data.column_keys) : IsScalar(data.column_keys[i])

\* C31: when the source holds a list of scalars under column_keys, the
\* column_keys of the table are those scalars as strings, as many and in the
\* same order, whatever the keys of the rows are; column_keys that differ
\* from the supplied ones are found only where no such list was supplied.
C31_SuppliedColumnKeysKept ==
    (Built /\ ret.value # None /\ SuppliesScalarKeys(ret.data)) =>
        /\ Len(ret.value.column_keys) = Len(ret.data.column_keys)
        /\ \A i \in 1..Len(ret.data.column_keys) :
               ret.value.column_keys[i] = TextOf(ret.data.column_keys[i])

\* Supplied keys b, 10 and 1.5 next to rows whose keys are a, b and c.
C31_Witness ==
    /\ Built /\ ret.value # None /\ SuppliesScalarKeys(ret.data)
    /\ ret.data.column_keys = <<StrVal("b"), IntVal(10), FloatVal(1, 5)>>
    /\ ret.value.response = <<RowAB, RowC>>
    /\ ret.value.column_keys = <<"b", "10", "1.5">>

StatusValues == {"success", "no_data", "error", "unknown"}

\* The tables of a payload the upgrader returned.
UpgradedTables ==
    IF Upgraded /\ ~ret.raised
    THEN {ret.value[k] : k \in CurrentTableFields \cap DOMAIN ret.value} \ {None}
    ELSE {}

\* C33: the status of every table that _build_agent_table returns, and of
\* every table in a payload that _upgrade_cached_payload returns, is one of
\* success, no_data, error and unknown, and it is unknown when the source
\* holds no status.
C33_StatusInClosedSet ==
    /\ (Built /\ ret.value # None) =>
           /\ ret.value.status \in StatusValues
           /\ "status" \notin DOMAIN ret.data => ret.value.status = "unknown"
    /\ \A table \in UpgradedTables : table.status \in StatusValues

\* A source status outside the four values is the status of the table.
StatusPassesThrough ==
    /\ Built /\ ret.value # None
    /\ "status" \in DOMAIN ret.data
    /\ ret.data.status = "partial"
    /\ ret.value.status = "partial"

\* No status, an empty status: unknown.
AbsentStatusIsUnknown ==
    (Built /\ ret.value # None /\ "status" \notin ret.data.garbled
       /\ GetOr(ret.data, "status", "") = "")
        => ret.value.status = "unknown"

----------------------------------------------------------------------------
(* Claims about malformed rows of the ZIP statistics, checked under SpecAgg *)

\* The rows whose claims_count and avg_loss parse as numbers.
ValidZipRows ==
    SelectSeq(ret.rows, LAMBDA row : row.garbled \cap {"claims_count", "avg_loss"} = {})

\* C32: when the agent's table for get_zip_stats holds a row whose
\* claims_count or avg_loss is no number, that row alone is dropped: as long
\* as one row is valid the operation returns a report, aggregated from the
\* valid rows.
C32_GarbledZipRowsDropped ==
    (ret.op = "zip_stats" /\ ValidZipRows # <<>>) =>
        /\ ~ret.raised
        /\ ret.result # None
        /\ ret.result.claim_frequency = SumClaims(ValidZipRows)

\* A valid row next to a row whose claims_count is no number: no report.
GarbledZipRowAborts ==
    /\ ret.op = "zip_stats"
    /\ ret.rows = <<Row("48", 10, 1000, 100, {}, {}),
                    Row("29", 2, 10, 5, {}, {"claims_count"})>>
    /\ ret.result = None
    /\ ~ret.raised
    /\ ret.writes = 0

\* With every row valid the report aggregates all of them.
AllValidZipRowsAggregated ==
    (ret.op = "zip_stats" /\ ValidZipRows = ret.rows /\ ret.rows # <<>>) =>
        ret.result # None /\ ret.result.claim_frequency = SumClaims(ret.rows)

----------------------------------------------------------------------------
(* Claims about the cache keys, checked under SpecKey *)

\* The two requests have the same function_id, the same case_id and the
\* same non-empty parameters, name and value.
SameRequest(a, b) ==
    /\ a.function_id = b.function_id
    /\ a.case_id = b.case_id
    /\ KwSet(DropFalsy(a.kw)) = KwSet(DropFalsy(b.kw))

\* C34: two requests that differ in function_id, in case_id or in the name
\* or the value of a non-empty parameter have different cache keys, and a
\* get for one of them does not return the record a set wrote for the other.
C34_KeysInjective ==
    (ret.op = "set_then_get" /\ ~SameRequest(ret.first, ret.second)) =>
        /\ ret.read # ret.written
        /\ ~IsHit(ret.result)

\* state="TX" and county="TX" share a key: the names are not part of it.
KeyIgnoresParamNames ==
    /\ ret.op = "set_then_get"
    /\ ret.first.function_id = ret.second.function_id
    /\ ret.first.case_id = ret.second.case_id
    /\ ret.first.kw = <<<<"state", "TX">>>>
    /\ ret.second.kw = <<<<"county", "TX">>>>
    /\ ret.read = ret.written
    /\ IsHit(ret.result)
    /\ ret.result.response_data = [id |-> "p1"]

\* case_id "c1_TX" without parameters and case_id "c1" with state="TX"
\* share a key: the separator may occur in the parts.
KeyIgnoresPartBoundaries ==
    /\ ret.op = "set_then_get"
    /\ ret.first.case_id = "c1_TX" /\ ret.first.kw = <<>>
    /\ ret.second.case_id = "c1" /\ ret.second.kw = <<<<"state", "TX">>>>
    /\ ret.read = ret.written
    /\ IsHit(ret.result)

\* Requests with different function_id never share a key here, and the
\* same request always finds its record.
SameRequestSameKey ==
    ret.op = "set_then_get" =>
        /\ SameRequest(ret.first, ret.second) => IsHit(ret.result)
        /\ ret.first.function_id # ret.second.function_id => ~IsHit(ret.result)

----------------------------------------------------------------------------
(* Claims about eviction under concurrent requests, checked under SpecRace *)

\* The file of the key holds, whole, a record that one set_cached_response
\* wrote, and the record has not expired.
HoldsLiveRecord ==
    /\ files[KeyB].kind = "json"
    /\ ~Mixed(disk)
    /\ files[KeyB].doc \in Written
    /\ ~Expired(now, files[KeyB].doc.cache_expires_at.t)

\* The step is the unlink of an invalidate_cache, which removes a record
\* whether it has expired or not.
InvalidateStep ==
    \E p \in Requests : procs[p].pc = "invalidate" /\ procs'[p].pc = "fetch"

\* C35: no step of a get_cached_response removes the file of the key while
\* it holds an unexpired record: lazy eviction deletes expired records only.
C35_EvictionRemovesOnlyExpired ==
    [][(HoldsLiveRecord /\ ~InvalidateStep) => files'[KeyB] # NoFile]_vars

\* A get_cached_response that runs in one piece evicts only what it found
\* expired.
AtomicReadEvictsOnlyExpired ==
    [][(HoldsLiveRecord /\ ret'.op = "get" /\ procs'= procs) => files'[KeyB] # NoFile]_vars

\* C36: a refresh_zip_stats, and the invalidate_cache it calls, does not
\* raise, whatever another request does to the file between its existence
\* test and its delete.
C36_InvalidateNeverRaises ==
    \A p \in Requests : procs[p].op = "refresh" => ~procs[p].raised

\* Two refreshes found the file; one deleted it, the other raised.
InvalidateRaisesAfterOtherDelete ==
    \E p, q \in Requests :
        /\ procs[p].op = "refresh" /\ procs[p].raised
        /\ procs[q].op = "refresh" /\ ~procs[q].raised /\ procs[q].pc = "fetch"

\* A refresh that found no file, or deleted the one it found, goes on to
\* the agent without raising.
RefreshThatDeletedFetches ==
    \A p \in Requests :
        (procs[p].op = "refresh" /\ procs[p].pc \in {"fetch", "open", "write"})
            => ~procs[p].raised

----------------------------------------------------------------------------
(* Claims about failed writes, checked under Spec *)

\* The step is a set_cached_response that failed: the storage refused the
\* open or the write, or json.dump rejected the payload.
FailedSetStep == ret'.op = "set" /\ (ret'.wr # "ok" \/ ~ret'.serializable)

\* What a get_cached_response of the key would return from the file f.
WouldGet(f) == get_cached_response(f, now, "ok").result

\* C37: a set_cached_response that fails leaves the cache of its key as it
\* was: the unexpired record a get would have returned before the call is
\* what a get returns after it.
C37_FailedWriteKeepsRecord ==
    [][(FailedSetStep /\ IsHit(WouldGet(files[ret'.key])))
           => WouldGet(files'[ret'.key]) = WouldGet(files[ret'.key])]_vars

\* A set that cannot open the file for writing leaves the record.
FailedOpenKeepsRecord ==
    [][(FailedSetStep /\ ret'.wr = "open_error") => files' = files]_vars

\* A write that failed after open() had truncated a valid record.
RecordLostToFailedWrite ==
    /\ ret.op = "set"
    /\ ret.wr = "write_error" \/ (ret.wr = "ok" /\ ~ret.serializable)
    /\ files[ret.key] = Garbage
    /\ ~IsHit(WouldGet(files[ret.key]))

----------------------------------------------------------------------------
(* Claims about what the fetches cache and return, checked under SpecFetch *)

\* The operation handed a report to set_cached_response.
WroteReport ==
    /\ ret.op \in {"get_property_summary", "refresh_property_summary",
                    "get_zip_stats", "refresh_zip_stats",
                    "get_risk_assessment", "refresh_risk_assessment"}
    /\ ret.writes > 0

\* The rows of a table of a risk assessment, none for no table.
TableRows(table) == IF table = None THEN <<>> ELSE table.response

\* The rows the written report was built from.
RowsOfReport ==
    IF scope = "A" THEN ret.result.rows
    ELSE IF scope = "B" THEN ret.agent.response
    ELSE TableRows(ret.result.severity_table)
             \o TableRows(ret.result.large_losses_table)

\* C38: every report that one of the three get-or-fetch operations hands to
\* the cache was built from at least one row: an agent response with zero
\* rows is never made into a cached report.
C38_CachedReportsHaveRows ==
    WroteReport => ret.result # None /\ RowsOfReport # <<>>

\* get_zip_stats caches the report of a successful response without rows.
ZipReportWithoutRowsCached ==
    /\ ret.op = "get_zip_stats"
    /\ ret.calls > 0
    /\ ret.agent.status = "success"
    /\ ret.agent.response = <<>>
    /\ ret.writes = 1 /\ ret.wr = "ok"
    /\ ret.result.claim_frequency = 0
    /\ files[ret.key].kind = "json"
    /\ files[ret.key].doc.response_data = ret.result

\* The property summary and the risk assessment are cached with rows only.
PropertyAndRiskReportsHaveRows ==
    (WroteReport /\ scope \in {"A", "C"}) => ret.result # None /\ RowsOfReport # <<>>

----------------------------------------------------------------------------
(* Claims about the assessment read from the cache, checked under SpecTable *)

\* C39: every assessment get_risk_assessment returns has a row in at least
\* one of its two tables, also when it is read from the cache through the
\* payload upgrader.
C39_ReturnedAssessmentHasRows ==
    (ret.op = "get_risk_assessment" /\ ~ret.raised /\ ret.result # None) =>
        TableRows(ret.result.severity_table)
            \o TableRows(ret.result.large_losses_table) # <<>>

\* A stored payload with empty legacy rows comes back as an assessment
\* without tables, and the agent is not asked.
CachedAssessmentWithoutRows ==
    /\ ret.op = "get_risk_assessment"
    /\ IsLegacyPayload(ret.data)
    /\ ret.data.severity_rows = <<>> /\ ret.data.large_losses = <<>>
    /\ ~ret.raised
    /\ ret.result # None
    /\ ret.result.severity_table = None /\ ret.result.large_losses_table = None
    /\ ret.calls = 0

\* A stored payload with a row in one of its tables is returned with it.
CachedAssessmentWithRows ==
    (/\ ret.op = "get_risk_assessment"
     /\ ~ret.raised
     /\ IsDict(ret.data)
     /\ "large_losses_table" \in DOMAIN ret.data)
        => /\ ret.result # None
           /\ ret.result.large_losses_table = StoredLargeLossesTable

====
